---------------------------- MODULE Spec2Model ----------------------------
(***************************************************************************)
(* A model of task-butler's storage layer: the Markdown record codec       *)
(* (storage/markdown.py), the file placement and short-id lookup            *)
(* (MarkdownStorage._task_path / _find_task_file) and the repository        *)
(* queries built on them (storage/repository.py).                           *)
(*                                                                         *)
(* Text is a sequence of one-character tokens.  Three tokens stand for a    *)
(* longer run of characters that the code only ever handles as a unit:      *)
(* "## Notes" (the notes marker) and the two rendered note timestamps.      *)
(* A task id is a sequence of three blocks: characters 0-3, characters 4-7  *)
(* and the remaining 28 characters of the UUID, so that the first two       *)
(* blocks are the 8-character short id.                                     *)
(* An optional value is <<>> (None) or <<v>>; an absent id is <<>>.         *)
(***************************************************************************)
EXTENDS Integers, Sequences, FiniteSets, TLC

VARIABLES
    files,          \* the storage directory: path -> file content
    organization,   \* the organization method the store was configured with
    last,           \* the last repository call: operation, argument, outcome
    mem,            \* codec: the task object in memory
    disk,           \* codec: the text of the task's file (<<>> before the first save)
    saved,          \* codec: the task object handed to the last save
    format,         \* storage format: "frontmatter" or "hybrid"
    phase,          \* codec: what happened last to mem / disk
    issued,         \* manager: the number of uuids given to new tasks so far
    report,         \* sync: the conflicts the last command printed (`obsidian check`)
    occurrence,     \* recurrence: the last call of the generator and its result
    summary         \* sync: what the last `obsidian import` did with each line

vars ==
    <<files, organization, last, mem, disk, saved, format, phase, issued, report,
      occurrence, summary>>

-----------------------------------------------------------------------------
(* Sequences of tokens *)

Min(a, b) == IF a < b THEN a ELSE b

Whitespace == {"sp", "nl"}

\* s[:n]
Take(s, n) == SubSeq(s, 1, Min(n, Len(s)))

\* s[n:]  (n is the 0-based index of Python)
Drop(s, n) == SubSeq(s, n + 1, Len(s))

\* s.startswith(p)
StartsWith(s, p) == Len(p) <= Len(s) /\ SubSeq(s, 1, Len(p)) = p

\* s.lstrip(chars) / s.rstrip(chars) / s.strip(chars)
RECURSIVE LStrip(_, _)
LStrip(s, chars) ==
    IF s # <<>> /\ Head(s) \in chars THEN LStrip(Tail(s), chars) ELSE s

RECURSIVE RStrip(_, _)
RStrip(s, chars) ==
    IF s # <<>> /\ s[Len(s)] \in chars
    THEN RStrip(SubSeq(s, 1, Len(s) - 1), chars)
    ELSE s

StripChars(s, chars) == RStrip(LStrip(s, chars), chars)

\* str.strip(): whitespace
Strip(s) == StripChars(s, Whitespace)

\* 1-based position of the first tok in s, 0 if there is none
RECURSIVE IndexOf(_, _)
IndexOf(s, tok) ==
    IF s = <<>> THEN 0
    ELSE IF Head(s) = tok THEN 1
    ELSE LET r == IndexOf(Tail(s), tok) IN IF r = 0 THEN 0 ELSE r + 1

\* s.split(sep): the pieces between occurrences of the token sep
RECURSIVE Split(_, _)
Split(s, sep) ==
    LET i == IndexOf(s, sep) IN
    IF i = 0 THEN <<s>>
    ELSE <<SubSeq(s, 1, i - 1)>> \o Split(SubSeq(s, i + 1, Len(s)), sep)

\* sep.join(parts)
RECURSIVE Join(_, _)
Join(parts, sep) ==
    IF parts = <<>> THEN <<>>
    ELSE IF Len(parts) = 1 THEN parts[1]
    ELSE parts[1] \o <<sep>> \o Join(Tail(parts), sep)

Range(s) == {s[i] : i \in DOMAIN s}

-----------------------------------------------------------------------------
(* The task object (models/task.py: the fields MarkdownStorage reads and    *)
(* writes) *)

None == <<>>

Some(v) == <<v>>

Statuses == {"pending", "in_progress", "done", "cancelled"}

Priorities == {"urgent", "high", "medium", "low", "lowest"}

\* A datetime is <<day, second>>: the calendar minute and the seconds within it.
\* strftime("%Y-%m-%d %H:%M") renders the minute and drops the seconds.
Strftime(dt) == IF dt[1] = 1 THEN "2024-01-01 12:00" ELSE "2024-01-02 12:00"

TimestampTokens == {"2024-01-01 12:00", "2024-01-02 12:00"}

\* datetime.strptime(s, "%Y-%m-%d %H:%M"): seconds are 0
Strptime(tok) == IF tok = "2024-01-01 12:00" THEN <<1, 0>> ELSE <<2, 0>>

Note(content, created_at) == [content |-> content, created_at |-> created_at]

NewTask(id, title, now) ==
    [id |-> id, title |-> title, description |-> <<>>,
     status |-> "pending", priority |-> "medium",
     due_date |-> None, scheduled_date |-> None, start_date |-> None,
     completed_at |-> None, estimated_hours |-> None, actual_hours |-> None,
     tags |-> <<>>, project |-> None, parent_id |-> None,
     dependencies |-> <<>>, recurrence |-> None,
     recurrence_parent_id |-> None,
     created_at |-> now, updated_at |-> now, notes |-> <<>>]

\* no import yet
NoSummary ==
    [imported |-> 0, updated |-> 0, skipped |-> 0, errors |-> <<>>,
     dry_run |-> FALSE, log |-> <<>>]

\* no call of the recurrence generator yet
NoOccurrence ==
    [op |-> "none", after |-> <<0, 0>>, until |-> <<0, 0>>, next |-> None,
     instances |-> <<>>]

\* Task.is_open
IsOpen(task) == task.status \in {"pending", "in_progress"}

\* Task.start()
TaskStart(task, now) ==
    [task EXCEPT !.status = "in_progress", !.updated_at = now]

\* Task.complete(actual_hours)
TaskComplete(task, hours, now) ==
    [task EXCEPT !.status = "done", !.completed_at = Some(now),
                 !.actual_hours = IF hours # None THEN hours ELSE @,
                 !.updated_at = now]

\* Task.cancel()
TaskCancel(task, now) ==
    [task EXCEPT !.status = "cancelled", !.updated_at = now]

\* Task.add_note(content)
TaskAddNote(task, content, now) ==
    [task EXCEPT !.notes = Append(@, Note(content, now)), !.updated_at = now]

-----------------------------------------------------------------------------
(* The inline line (storage/obsidian.py, ObsidianTasksFormat.to_obsidian_line) *)

DateToken(dt) == IF dt[1] = 1 THEN "2024-01-01" ELSE "2024-01-02"

PriorityEmoji(priority) ==
    CASE priority = "urgent" -> <<"sp", "<urgent>">>
      [] priority = "high"   -> <<"sp", "<high>">>
      [] priority = "low"    -> <<"sp", "<low>">>
      [] priority = "lowest" -> <<"sp", "<lowest>">>
      [] OTHER               -> <<>>

RECURSIVE TagTokens(_)
TagTokens(tags) ==
    IF tags = <<>> THEN <<>>
    ELSE <<"sp", "#", Head(tags)>> \o TagTokens(Tail(tags))

\* checkbox, title, priority emoji, due date, completion date, hashtags
ToObsidianLine(task) ==
    <<"-", "sp", "[", IF task.status = "done" THEN "x" ELSE "sp", "]", "sp">>
    \o task.title
    \o PriorityEmoji(task.priority)
    \o (IF task.due_date # None
        THEN <<"sp", "<due>", "sp", DateToken(task.due_date[1])>> ELSE <<>>)
    \o (IF task.scheduled_date # None
        THEN <<"sp", "<scheduled>", "sp", DateToken(task.scheduled_date[1])>>
        ELSE <<>>)
    \o (IF task.start_date # None
        THEN <<"sp", "<start>", "sp", DateToken(task.start_date[1])>> ELSE <<>>)
    \o (IF task.status = "done" /\ task.completed_at # None
        THEN <<"sp", "<done>", "sp", DateToken(task.completed_at[1])>> ELSE <<>>)
    \o TagTokens(task.tags)

-----------------------------------------------------------------------------
(* Reading an inline line (ObsidianTasksFormat.from_obsidian_line) and      *)
(* comparing it with a task (ObsidianTasksFormat.detect_conflicts)          *)

DateTokens == {"2024-01-01", "2024-01-02"}

\* datetime.strptime(s, "%Y-%m-%d"): the day, at its first instant
ParseDate(tok) == IF tok = "2024-01-01" THEN <<1, 0>> ELSE <<2, 0>>

\* datetime.date(): the calendar day of a datetime
DateOf(dt) == dt[1]

\* the priority each emoji stands for
PriorityEmojis == {"<urgent>", "<high>", "<medium>", "<low>", "<lowest>"}

PriorityOfEmoji(tok) ==
    CASE tok = "<urgent>" -> "urgent"
      [] tok = "<high>"   -> "high"
      [] tok = "<medium>" -> "medium"
      [] tok = "<low>"    -> "low"
      [] OTHER            -> "lowest"

\* the date markers: due, scheduled, start, completion
DateMarkers == {"<due>", "<scheduled>", "<start>", "<done>"}

\* the tokens that are part of no word
Punctuation ==
    Whitespace \cup PriorityEmojis \cup DateMarkers \cup {"#", "-", "[", "]"}

\* the line starts with the checkbox "- [ ]", "- [x]" or "- [X]"
HasCheckbox(line) ==
    /\ Len(line) >= 5
    /\ SubSeq(line, 1, 3) = <<"-", "sp", "[">>
    /\ line[4] \in {"sp", "x", "X"}
    /\ line[5] = "]"

\* the first priority emoji of the text, if any
RECURSIVE FindPriority(_)
FindPriority(text) ==
    IF text = <<>> THEN None
    ELSE IF Head(text) \in PriorityEmojis THEN Some(PriorityOfEmoji(Head(text)))
    ELSE FindPriority(Tail(text))

\* the date that follows the first occurrence of a date marker, if any
FindDate(text, marker) ==
    LET i    == IndexOf(text, marker)
        tail == LStrip(Drop(text, i), {"sp"})
    IN  IF i # 0 /\ tail # <<>> /\ Head(tail) \in DateTokens
        THEN Some(ParseDate(Head(tail)))
        ELSE None

\* the words that follow a "#", in the order of the text
RECURSIVE FindTags(_)
FindTags(text) ==
    IF Len(text) < 2 THEN <<>>
    ELSE IF Head(text) = "#" /\ text[2] \notin Punctuation
    THEN <<text[2]>> \o FindTags(Drop(text, 2))
    ELSE FindTags(Tail(text))

\* the text without the markers and hashtags that were recognized
RECURSIVE RemoveMarkers(_)
RemoveMarkers(text) ==
    IF text = <<>> THEN <<>>
    ELSE IF Head(text) \in PriorityEmojis THEN RemoveMarkers(Tail(text))
    ELSE IF /\ Head(text) \in DateMarkers
            /\ LStrip(Tail(text), {"sp"}) # <<>>
            /\ Head(LStrip(Tail(text), {"sp"})) \in DateTokens
    THEN RemoveMarkers(Tail(LStrip(Tail(text), {"sp"})))
    ELSE IF Head(text) = "#" /\ Len(text) >= 2 /\ text[2] \notin Punctuation
    THEN RemoveMarkers(Drop(text, 2))
    ELSE <<Head(text)>> \o RemoveMarkers(Tail(text))

\* from_obsidian_line(line): None stands for the ValueError raised on a line
\* without checkbox
FromObsidianLine(line) ==
    IF ~HasCheckbox(line) THEN None
    ELSE LET text == Drop(line, 5) IN
         Some([title          |-> Strip(RemoveMarkers(text)),
               is_completed   |-> line[4] \in {"x", "X"},
               priority       |-> FindPriority(text),
               due_date       |-> FindDate(text, "<due>"),
               scheduled_date |-> FindDate(text, "<scheduled>"),
               start_date     |-> FindDate(text, "<start>"),
               completed_at   |-> FindDate(text, "<done>"),
               tags           |-> FindTags(text)])

\* a conflict: the field and the two values, each as text
Conflict(field, frontmatter_value, obsidian_value) ==
    [field |-> field, frontmatter_value |-> frontmatter_value,
     obsidian_value |-> obsidian_value]

\* the ISO date of an optional datetime; empty for None
DateText(dt) == IF dt = None THEN <<>> ELSE <<DateToken(dt[1])>>

\* the tags of a list, each once, as text: sorted(set(tags))
RECURSIVE SortedTags(_)
SortedTags(tagset) ==
    IF tagset = {} THEN <<>>
    ELSE LET t == CHOOSE t \in tagset : TRUE IN <<t>> \o SortedTags(tagset \ {t})

\* detect_conflicts(task, line): completion status, priority, due date and
\* tags, in this order; a line that does not parse gives no conflict
DetectConflicts(task, line) ==
    LET p == FromObsidianLine(line) IN
    IF p = None THEN <<>>
    ELSE LET parsed == p[1]
             line_priority == IF parsed.priority = None THEN "medium"
                              ELSE parsed.priority[1]
         IN  (IF (task.status = "done") # parsed.is_completed
              THEN <<Conflict("status", <<task.status>>,
                              <<IF parsed.is_completed THEN "done" ELSE "pending">>)>>
              ELSE <<>>)
          \o (IF task.priority # line_priority
              THEN <<Conflict("priority", <<task.priority>>, <<line_priority>>)>>
              ELSE <<>>)
          \o (IF \/ (task.due_date = None) # (parsed.due_date = None)
                 \/ /\ task.due_date # None /\ parsed.due_date # None
                    /\ DateOf(task.due_date[1]) # DateOf(parsed.due_date[1])
              THEN <<Conflict("due_date", DateText(task.due_date),
                              DateText(parsed.due_date))>>
              ELSE <<>>)
          \o (IF Range(task.tags) # Range(parsed.tags)
              THEN <<Conflict("tags", SortedTags(Range(task.tags)),
                              SortedTags(Range(parsed.tags)))>>
              ELSE <<>>)

-----------------------------------------------------------------------------
(* The record codec: MarkdownStorage.save (the text it writes) and          *)
(* MarkdownStorage.load_from_path *)

NotesMarker == "## Notes"

RequiredKeys == {"id", "title", "status", "priority", "created_at", "updated_at"}

\* the optional keys save() writes: the ones whose field is truthy
OptionalKeys(task) ==
    {k \in {"due_date", "scheduled_date", "start_date", "completed_at"} :
        task[k] # None}
    \cup {k \in {"estimated_hours", "actual_hours"} :
        task[k] # None /\ task[k][1] # 0}
    \cup {k \in {"tags", "dependencies", "parent_id", "recurrence_parent_id"} :
        task[k] # <<>>}
    \cup (IF task.project # None /\ task.project[1] # "" THEN {"project"} ELSE {})
    \cup (IF task.recurrence # None THEN {"recurrence"} ELSE {})

\* metadata["recurrence"]
RecurrenceKeys(rule) ==
    {"frequency", "interval"}
    \cup (IF rule.days_of_week # None /\ rule.days_of_week[1] # <<>>
          THEN {"days_of_week"} ELSE {})
    \cup (IF rule.day_of_month # None /\ rule.day_of_month[1] # 0
          THEN {"day_of_month"} ELSE {})
    \cup (IF rule.end_date # None THEN {"end_date"} ELSE {})

RecurrenceMeta(rule) ==
    [k \in RecurrenceKeys(rule) |->
        IF k \in {"frequency", "interval"} THEN rule[k] ELSE rule[k][1]]

\* the frontmatter block: one value per key written
Metadata(task) ==
    [k \in RequiredKeys \cup OptionalKeys(task) |->
        CASE k \in {"due_date", "scheduled_date", "start_date", "completed_at",
                    "estimated_hours", "actual_hours", "project"} -> task[k][1]
          [] k = "recurrence" -> RecurrenceMeta(task.recurrence[1])
          [] OTHER -> task[k]]

RECURSIVE NoteLines(_)
NoteLines(notes) ==
    IF notes = <<>> THEN <<>>
    ELSE << <<"-", "sp", "[", Strftime(Head(notes).created_at), "]", "sp">>
            \o Head(notes).content >>
         \o NoteLines(Tail(notes))

\* content_parts of save()
ContentParts(task, fmt) ==
    (IF fmt = "hybrid" THEN <<ToObsidianLine(task), <<>>>> ELSE <<>>)
    \o (IF task.description # <<>> THEN <<task.description>> ELSE <<>>)
    \o (IF task.notes # <<>>
        THEN << <<"nl", NotesMarker, "nl">> >> \o NoteLines(task.notes)
        ELSE <<>>)

\* the file save() writes: frontmatter.dumps(Post(content, **metadata))
FileText(task, fmt) ==
    [meta |-> Metadata(task), content |-> Join(ContentParts(task, fmt), "nl")]

\* a line that starts with "- [ ]" or "- [x]" / "- [X]"
IsCheckboxLine(line) ==
    LET stripped == Strip(line) IN
    \/ StartsWith(stripped, <<"-", "sp", "[", "sp", "]">>)
    \/ StartsWith(stripped, <<"-", "sp", "[", "x", "]">>)
    \/ StartsWith(stripped, <<"-", "sp", "[", "X", "]">>)

RECURSIVE DropCheckboxLines(_)
DropCheckboxLines(lines) ==
    IF lines = <<>> THEN <<>>
    ELSE (IF IsCheckboxLine(Head(lines)) THEN <<>> ELSE <<Head(lines)>>)
         \o DropCheckboxLines(Tail(lines))

\* _strip_obsidian_lines without the filter on checkbox lines
StripObsidianLines_KeepAll(content) == Strip(content)

\* MarkdownStorage._strip_obsidian_lines
StripObsidianLines(content) ==
    Strip(Join(DropCheckboxLines(Split(content, "nl")), "nl"))

\* one line of the notes section: the notes it adds
ParseNoteLine(rawline, now) ==
    LET line == Strip(rawline)
        e    == IndexOf(line, "]")
        ts   == SubSeq(line, 4, e - 1)
    IN  IF ~StartsWith(line, <<"-", "sp", "[">>) THEN <<>>
        ELSE IF e # 0 /\ Len(ts) = 1 /\ ts[1] \in TimestampTokens
        THEN <<Note(Drop(line, e + 1), Strptime(ts[1]))>>
        ELSE <<Note(Drop(line, 2), now)>>

RECURSIVE ParseNotes(_, _)
ParseNotes(lines, now) ==
    IF lines = <<>> THEN <<>>
    ELSE ParseNoteLine(Head(lines), now) \o ParseNotes(Tail(lines), now)

MetaGet(meta, k) == IF k \in DOMAIN meta THEN Some(meta[k]) ELSE None

MetaGetOr(meta, k, default) == IF k \in DOMAIN meta THEN meta[k] ELSE default

LoadRecurrence(meta) ==
    IF "recurrence" \notin DOMAIN meta THEN None
    ELSE LET rec == meta["recurrence"] IN
         Some([frequency    |-> rec["frequency"],
               interval     |-> MetaGetOr(rec, "interval", 1),
               days_of_week |-> MetaGet(rec, "days_of_week"),
               day_of_month |-> MetaGet(rec, "day_of_month"),
               end_date     |-> MetaGet(rec, "end_date")])

\* MarkdownStorage.load_from_path on an existing file; post.content is the
\* text after the frontmatter block, stripped by the frontmatter parser.
\* `now` is the default created_at of a note built without a timestamp.
LoadFromPath(file, now) ==
    LET meta     == file.meta
        content  == Strip(file.content)
        hasNotes == IndexOf(content, NotesMarker) # 0
        parts    == Split(content, NotesMarker)
        description == IF hasNotes THEN Strip(parts[1]) ELSE content
        notes    == IF hasNotes
                    THEN ParseNotes(Split(Strip(parts[2]), "nl"), now)
                    ELSE <<>>
    IN  [id |-> meta["id"], title |-> meta["title"],
         description |-> StripObsidianLines(description),
         status |-> meta["status"], priority |-> meta["priority"],
         due_date |-> MetaGet(meta, "due_date"),
         scheduled_date |-> MetaGet(meta, "scheduled_date"),
         start_date |-> MetaGet(meta, "start_date"),
         completed_at |-> MetaGet(meta, "completed_at"),
         estimated_hours |-> MetaGet(meta, "estimated_hours"),
         actual_hours |-> MetaGet(meta, "actual_hours"),
         tags |-> MetaGetOr(meta, "tags", <<>>),
         project |-> MetaGet(meta, "project"),
         parent_id |-> MetaGetOr(meta, "parent_id", None),
         dependencies |-> MetaGetOr(meta, "dependencies", <<>>),
         recurrence |-> LoadRecurrence(meta),
         recurrence_parent_id |-> MetaGetOr(meta, "recurrence_parent_id", None),
         created_at |-> meta["created_at"], updated_at |-> meta["updated_at"],
         notes |-> notes]

-----------------------------------------------------------------------------
(* File placement: MarkdownStorage._sanitize_filename, _task_filename,      *)
(* _task_path, _find_task_file.  A path is a directory and a file name; a   *)
(* file name is "<short>_<stem>.md" (kind "task") or the legacy "<id>.md".  *)

MAX_TITLE_LENGTH == 50

\* characters INVALID_FILENAME_CHARS matches
InvalidFilenameChars == {"?"}

BaseDir == "."

RECURSIVE ReplaceInvalid(_)
ReplaceInvalid(s) ==
    IF s = <<>> THEN <<>>
    ELSE <<IF Head(s) \in InvalidFilenameChars THEN "_" ELSE Head(s)>>
         \o ReplaceInvalid(Tail(s))

\* re.sub(r"[\s_]+", "_", s)
RECURSIVE CollapseRuns(_)
CollapseRuns(s) ==
    IF s = <<>> THEN <<>>
    ELSE IF Head(s) \in Whitespace \cup {"_"}
    THEN <<"_">> \o CollapseRuns(LStrip(s, Whitespace \cup {"_"}))
    ELSE <<Head(s)>> \o CollapseRuns(Tail(s))

SanitizeFilename(title) ==
    LET stripped  == StripChars(CollapseRuns(ReplaceInvalid(title)), {"_"})
        truncated == IF Len(stripped) > MAX_TITLE_LENGTH
                     THEN RStrip(Take(stripped, MAX_TITLE_LENGTH), {"_"})
                     ELSE stripped
    IN  IF truncated = <<>> THEN <<"t", "a", "s", "k">> ELSE truncated

\* task_id[:8]: the first two blocks of an id
SHORT_ID_BLOCKS == 2

ShortId(task_id) == Take(task_id, SHORT_ID_BLOCKS)

TaskFilename(task_id, title) ==
    [kind |-> "task", short |-> ShortId(task_id), stem |-> SanitizeFilename(title)]

PathIn(dir, name) ==
    [dir |-> dir, kind |-> name.kind, short |-> name.short, stem |-> name.stem]

EmptyFiles == [p \in {} |-> p]

Exists(fs, path) == path \in DOMAIN fs

WriteText(fs, path, text) ==
    [q \in DOMAIN fs \cup {path} |-> IF q = path THEN text ELSE fs[q]]

Unlink(fs, path) == [q \in DOMAIN fs \ {path} |-> fs[q]]

\* base_dir.glob(f"{short_id}_*.md")
GlobShort(fs, short) ==
    {p \in DOMAIN fs : p.dir = BaseDir /\ p.kind = "task" /\ p.short = short}

\* base_dir.glob("*.md")
GlobAll(fs) == {p \in DOMAIN fs : p.dir = BaseDir}

\* _find_task_file: the paths it may return (the glob's order is the
\* directory's, so any match may come first)
FindTaskFile(fs, task_id) ==
    LET short_id == ShortId(task_id)
        legacy   == PathIn(BaseDir, [kind |-> "legacy", short |-> task_id, stem |-> <<>>])
    IN  IF GlobShort(fs, short_id) # {} THEN GlobShort(fs, short_id)
        ELSE IF Exists(fs, legacy) THEN {legacy}
        ELSE {PathIn(BaseDir, [kind |-> "task", short |-> short_id,
                               stem |-> <<"t", "a", "s", "k">>])}

\* _task_path
TaskPath(fs, task_id, title) ==
    IF title # <<>> THEN {PathIn(BaseDir, TaskFilename(task_id, title))}
    ELSE FindTaskFile(fs, task_id)

-----------------------------------------------------------------------------
(* MarkdownStorage: save, load, delete, list_all on a directory `fs`.       *)
(* Where the directory's order decides, an operator gives the set of        *)
(* outcomes. *)

\* save without the removal of the file found under the previous name
SaveOutcomes_NoUnlink(fs, task, fmt) ==
    { WriteText(fs, new_path, FileText(task, fmt)) :
        new_path \in TaskPath(fs, task.id, task.title) }

\* save(task): the directory afterwards
SaveOutcomes(fs, task, fmt) ==
    { WriteText(IF Exists(fs, existing_path) /\ existing_path # new_path
                THEN Unlink(fs, existing_path) ELSE fs,
                new_path, FileText(task, fmt)) :
        new_path \in TaskPath(fs, task.id, task.title),
        existing_path \in FindTaskFile(fs, task.id) }

\* load(task_id): None or the task
LoadOutcomes(fs, task_id, now) ==
    { IF Exists(fs, path) THEN Some(LoadFromPath(fs[path], now)) ELSE None :
        path \in FindTaskFile(fs, task_id) }

\* delete(task_id): the directory afterwards and the result
StorageDeleteOutcomes(fs, task_id) ==
    { [fs  |-> IF Exists(fs, path) THEN Unlink(fs, path) ELSE fs,
       ret |-> Exists(fs, path)] :
        path \in FindTaskFile(fs, task_id) }

\* load_from_path builds the task from metadata["id"], ["title"], ["status"],
\* ["priority"], ["created_at"] and ["updated_at"]: a KeyError without one
Decodes(file) == RequiredKeys \subseteq DOMAIN file.meta

\* list_all(): one task per file found, keyed by the file
ListAll(fs, now) == [path \in GlobAll(fs) |-> LoadFromPath(fs[path], now)]

-----------------------------------------------------------------------------
(* TaskRepository *)

\* get(task_id): None or a task
GetOutcomes(fs, task_id, now) ==
    LET loaded  == LoadOutcomes(fs, task_id, now)
        listed  == ListAll(fs, now)
        matches == {path \in DOMAIN listed : StartsWith(listed[path].id, task_id)}
    IN  (loaded \ {None})
        \cup (IF None \notin loaded THEN {}
              ELSE IF matches # {} THEN {Some(listed[path]) : path \in matches}
              ELSE {None})

\* create(task)
CreateOutcomes(fs, task, fmt, now) ==
    SaveOutcomes(fs, [task EXCEPT !.created_at = now, !.updated_at = now], fmt)

\* update that stamps the task the way create does
UpdateOutcomes_AsCreate(fs, task, fmt, now) ==
    CreateOutcomes(fs, task, fmt, now)

\* update(task)
UpdateOutcomes(fs, task, fmt, now) ==
    SaveOutcomes(fs, [task EXCEPT !.updated_at = now], fmt)

\* delete(task_id)
DeleteOutcomes(fs, task_id, now) ==
    UNION { IF task # None THEN StorageDeleteOutcomes(fs, task[1].id)
            ELSE {[fs |-> fs, ret |-> FALSE]} :
        task \in GetOutcomes(fs, task_id, now) }

\* get_children(parent_id)
GetChildren(fs, parent_id, now) ==
    LET listed == ListAll(fs, now) IN
    {path \in DOMAIN listed : listed[path].parent_id = parent_id}

\* get_dependents that finds no dependent
GetDependents_None(fs, task_id, now) == {}

\* get_dependents(task_id)
GetDependents(fs, task_id, now) ==
    LET listed == ListAll(fs, now) IN
    {path \in DOMAIN listed : task_id \in Range(listed[path].dependencies)}

\* the loop of get_blocking_tasks without the is_open test
RECURSIVE BlockingOf_AnyStatus(_, _, _)
BlockingOf_AnyStatus(fs, deps, now) ==
    IF deps = <<>> THEN {<<>>}
    ELSE { (IF dep_task # None THEN <<dep_task[1]>> ELSE <<>>) \o rest :
             dep_task \in GetOutcomes(fs, Head(deps), now),
             rest \in BlockingOf_AnyStatus(fs, Tail(deps), now) }

\* the loop of get_blocking_tasks over the dependency ids: the lists it may build
RECURSIVE BlockingOf(_, _, _)
BlockingOf(fs, deps, now) ==
    IF deps = <<>> THEN {<<>>}
    ELSE { (IF dep_task # None /\ IsOpen(dep_task[1]) THEN <<dep_task[1]>> ELSE <<>>)
           \o rest :
             dep_task \in GetOutcomes(fs, Head(deps), now),
             rest \in BlockingOf(fs, Tail(deps), now) }

\* get_blocking_tasks(task_id)
GetBlockingTasks(fs, task_id, now) ==
    UNION { IF task = None \/ task[1].dependencies = <<>> THEN {<<>>}
            ELSE BlockingOf(fs, task[1].dependencies, now) :
        task \in GetOutcomes(fs, task_id, now) }

\* can_start that never finds a blocking task
CanStart_Always(fs, task_id, now) == {TRUE}

\* can_start(task_id)
CanStart(fs, task_id, now) ==
    {Len(blocking) = 0 : blocking \in GetBlockingTasks(fs, task_id, now)}

-----------------------------------------------------------------------------
(* Bounds and input sets *)

\* the most notes a task object carries before add_note is no longer offered
MaxNotes == 2

\* note contents handed to add_note: one line of text each
NoteContents == {<<"a">>, <<"a", "sp", "]">>}

\* descriptions of new tasks: empty, plain, with surrounding whitespace, with
\* a Markdown checklist line, with a "## Notes" heading of their own
Descriptions ==
    { <<>>,
      <<"a">>,
      <<"sp", "a", "nl">>,
      <<"a", "nl", "-", "sp", "[", "sp", "]", "sp", "b">>,
      <<"-", "sp", "[", "X", "]", "sp", "b", "nl", "a">>,
      <<"a", "nl", NotesMarker, "nl", "-", "sp", "[", "sp", "]", "sp", "b">> }

CodecId == <<"aaaa", "1111", "x">>

\* the clock readings datetime.now() returns to the Task methods
NowTimes == {<<2, 30>>}

\* the optional fields of a new task: all absent, or all present
Profiles ==
    { [priority |-> "medium", due_date |-> None, tags |-> <<>>,
       estimated_hours |-> None, project |-> None],
      [priority |-> "high", due_date |-> Some(<<2, 30>>),
       tags |-> <<"work", "home">>, estimated_hours |-> Some(2),
       project |-> Some("p")] }

\* the task objects a caller may hand to the first save
CodecTasks ==
    { [NewTask(CodecId, <<"T">>, <<1, 0>>) EXCEPT
          !.description = d, !.status = st,
          !.completed_at = IF st = "done" THEN Some(<<1, 0>>) ELSE None,
          !.priority = pf.priority, !.due_date = pf.due_date,
          !.tags = pf.tags, !.estimated_hours = pf.estimated_hours,
          !.project = pf.project] :
        d \in Descriptions, st \in Statuses, pf \in Profiles }

-----------------------------------------------------------------------------
(* The codec as a state machine: one task object, one file, saved and       *)
(* loaded by MarkdownStorage and changed in between by the Task methods.    *)

\* what the last call was: its argument, the ids of the tasks it returned,
\* any other value it returned and the exception it raised
NoCall == [op |-> "none", arg |-> <<>>, ret |-> {}, val |-> "", exc |-> "none"]

CodecInit ==
    /\ files = EmptyFiles
    /\ organization = "flat"
    /\ last = NoCall
    /\ format \in {"frontmatter", "hybrid"}
    /\ mem \in CodecTasks
    /\ disk = None
    /\ saved = None
    /\ phase = [op |-> "new", fromDisk |-> FALSE]
    /\ issued = 0
    /\ report = {}
    /\ occurrence = NoOccurrence
    /\ summary = NoSummary

\* storage.save(task)
CodecSave ==
    /\ disk' = Some(FileText(mem, format))
    /\ saved' = Some(mem)
    /\ phase' = [phase EXCEPT !.op = "save"]
    /\ UNCHANGED <<files, organization, last, mem, format, issued, report, occurrence,
                       summary>>

\* task = storage.load(task.id)
CodecLoad ==
    /\ disk # None
    /\ \E now \in NowTimes : mem' = LoadFromPath(disk[1], now)
    /\ phase' = [op |-> "load", fromDisk |-> TRUE]
    /\ UNCHANGED <<files, organization, last, disk, saved, format, issued, report, occurrence,
                       summary>>

\* task.add_note(content)
CodecAddNote ==
    /\ Len(mem.notes) < MaxNotes
    /\ \E content \in NoteContents, now \in NowTimes :
          mem' = TaskAddNote(mem, content, now)
    /\ phase' = [phase EXCEPT !.op = "mutate"]
    /\ UNCHANGED <<files, organization, last, disk, saved, format, issued, report, occurrence,
                       summary>>

\* task.start() / task.complete() / task.cancel()
CodecSetStatus ==
    /\ \E now \in NowTimes :
          \/ mem' = TaskStart(mem, now)
          \/ mem' = TaskComplete(mem, None, now)
          \/ mem' = TaskCancel(mem, now)
    /\ mem' # mem
    /\ phase' = [phase EXCEPT !.op = "mutate"]
    /\ UNCHANGED <<files, organization, last, disk, saved, format, issued, report, occurrence,
                       summary>>

CodecNext == CodecSave \/ CodecLoad \/ CodecAddNote \/ CodecSetStatus

SpecCodec == CodecInit /\ [][CodecNext]_vars

-----------------------------------------------------------------------------
(* The repository over one storage directory *)

IdA == <<"aaaa", "1111", "x">>

\* same first 8 characters as IdA
IdA2 == <<"aaaa", "1111", "y">>

\* same first 4 characters as IdA
IdB == <<"aaaa", "2222", "x">>

TaskIds == {IdA, IdA2, IdB}

\* what a caller passes as task_id: a full id, a short id, a shorter prefix,
\* or a prefix of no task
TaskIdArgs ==
    {SubSeq(id, 1, n) : id \in TaskIds, n \in 1..3} \cup {<<"cccc">>}

\* <<"sp", "a", "?">> and <<"a">> sanitize to the same file name
Titles == {<<"a">>, <<"sp", "a", "?">>, <<"b">>}

StoredIds(fs) ==
    {fs[path].meta["id"] : path \in {q \in DOMAIN fs : "id" \in DOMAIN fs[q].meta}}

BoolText(b) == IF b THEN "True" ELSE "False"

Call(op, arg, ret, val) ==
    [op |-> op, arg |-> arg, ret |-> ret, val |-> val, exc |-> "none"]

CodecIdle ==
    /\ mem = None /\ disk = None /\ saved = None
    /\ phase = [op |-> "idle", fromDisk |-> FALSE]

Init ==
    /\ files = EmptyFiles
    /\ organization \in {"flat", "kanban"}
    /\ format = "frontmatter"
    /\ last = NoCall
    /\ CodecIdle
    /\ issued = 0
    /\ report = {}
    /\ occurrence = NoOccurrence
    /\ summary = NoSummary

\* repo.create(Task(title=..., status=...)) with a fresh id
Create ==
    \E id \in TaskIds \ StoredIds(files), title \in Titles, st \in Statuses,
       now \in NowTimes :
        LET task == [NewTask(id, title, now) EXCEPT
                        !.status = st,
                        !.completed_at = IF st = "done" THEN Some(now) ELSE None]
        IN  /\ files' \in CreateOutcomes(files, task, format, now)
            /\ last' = Call("create", id, {}, "")
            /\ UNCHANGED <<organization, mem, disk, saved, format, phase, issued, report, occurrence,
                       summary>>

\* task = repo.get(id); task.title = ...; repo.update(task)
UpdateTitle ==
    \E id \in StoredIds(files), title \in Titles, now \in NowTimes :
    \E got \in GetOutcomes(files, id, now) :
        /\ got # None
        /\ got[1].title # title
        /\ files' \in UpdateOutcomes(files, [got[1] EXCEPT !.title = title], format, now)
        /\ last' = Call("update", id, {}, "title")
        /\ UNCHANGED <<organization, mem, disk, saved, format, phase, issued, report, occurrence,
                       summary>>

\* task = repo.get(id); task.start() / complete() / cancel(); repo.update(task)
UpdateStatus ==
    \E id \in StoredIds(files), now \in NowTimes :
    \E got \in GetOutcomes(files, id, now) :
    \E task \in IF got = None THEN {}
                ELSE {TaskStart(got[1], now), TaskComplete(got[1], None, now),
                      TaskCancel(got[1], now)} :
        /\ task.status # got[1].status
        /\ files' \in UpdateOutcomes(files, task, format, now)
        /\ last' = Call("update", id, {}, "status")
        /\ UNCHANGED <<organization, mem, disk, saved, format, phase, issued, report, occurrence,
                       summary>>

\* repo.get(task_id)
Get ==
    \E task_id \in TaskIdArgs, now \in NowTimes :
    \E got \in GetOutcomes(files, task_id, now) :
        /\ last' = Call("get", task_id, {t.id : t \in Range(got)}, "")
        /\ UNCHANGED <<files, organization, mem, disk, saved, format, phase, issued, report, occurrence,
                       summary>>

\* repo.delete(task_id)
Delete ==
    \E task_id \in TaskIdArgs, now \in NowTimes :
    \E out \in DeleteOutcomes(files, task_id, now) :
        /\ files' = out.fs
        /\ last' = Call("delete", task_id, {}, BoolText(out.ret))
        /\ UNCHANGED <<organization, mem, disk, saved, format, phase, issued, report, occurrence,
                       summary>>

Next == Create \/ UpdateTitle \/ UpdateStatus \/ Get \/ Delete

\* repo.update(task) with a task object whose id no stored task has: one
\* built by the caller, or one loaded before its file was deleted
UpdateMissing ==
    \E id \in TaskIds \ StoredIds(files), title \in Titles, now \in NowTimes :
        /\ files' \in UpdateOutcomes(files, NewTask(id, title, now), format, now)
        /\ last' = Call("update", id, {}, "")
        /\ UNCHANGED <<organization, mem, disk, saved, format, phase, issued, report,
                       occurrence, summary>>

\* an editor outside the program removes a required key from the
\* frontmatter of a stored file
Damage ==
    \E path \in DOMAIN files, key \in {"id", "title"} :
        /\ key \in DOMAIN files[path].meta
        /\ files' = [files EXCEPT
                        ![path].meta = [k \in DOMAIN @ \ {key} |-> @[k]]]
        /\ last' = Call("edit", <<key>>, {}, "")
        /\ UNCHANGED <<organization, mem, disk, saved, format, phase, issued, report,
                       occurrence, summary>>

\* storage.list_all(): the loop has no except clause, so the KeyError of
\* one file ends the listing
ListAllCall ==
    \E now \in NowTimes :
        /\ last' = IF \A path \in GlobAll(files) : Decodes(files[path])
                   THEN Call("list_all", <<>>,
                             {ListAll(files, now)[path].id : path \in GlobAll(files)},
                             "")
                   ELSE [Call("list_all", <<>>, {}, "") EXCEPT !.exc = "KeyError"]
        /\ UNCHANGED <<files, organization, mem, disk, saved, format, phase, issued,
                       report, occurrence, summary>>

DamagedNext == Create \/ Damage \/ ListAllCall

SpecDamaged == Init /\ [][DamagedNext]_vars

MissingNext == Create \/ Get \/ Delete \/ UpdateMissing

SpecMissing == Init /\ [][MissingNext]_vars

\* a task file whose notes section was edited by hand: the lines a user may
\* leave there
MaxHandLines == 3

HandLines ==
    { <<"-", "sp", "[", "2024-01-01 12:00", "]", "sp", "a">>,
      <<"-", "sp", "[", "2024-01-02 12:00", "]", "sp", "b">>,
      <<"-", "sp", "[", "bad", "]", "sp", "c">>,
      <<"-", "sp", "[", "e">>,
      <<"d">> }

HandNotes ==
    UNION { [1..n -> HandLines] : n \in 1..MaxHandLines }

HandFile(lines) ==
    [meta |-> Metadata(NewTask(CodecId, <<"T">>, <<1, 0>>)),
     content |-> <<"a", "nl", "nl", NotesMarker, "nl">> \o Join(lines, "nl")]

NotesInit ==
    /\ files = EmptyFiles
    /\ organization = "flat"
    /\ last = NoCall
    /\ format = "frontmatter"
    /\ mem = None
    /\ \E lines \in HandNotes : disk = Some(HandFile(lines))
    /\ saved = None
    /\ phase = [op |-> "idle", fromDisk |-> FALSE]
    /\ issued = 0
    /\ report = {}
    /\ occurrence = NoOccurrence
    /\ summary = NoSummary

\* task = storage.load(task.id) on the edited file
NotesLoad ==
    /\ phase.op = "idle"
    /\ \E now \in NowTimes : mem' = LoadFromPath(disk[1], now)
    /\ phase' = [op |-> "load", fromDisk |-> TRUE]
    /\ UNCHANGED <<files, organization, last, disk, saved, format, issued,
                   report, occurrence, summary>>

NotesNext == NotesLoad

SpecNotes == NotesInit /\ [][NotesNext]_vars

\* The clock: datetime.now() never runs backwards.  `issued` counts the
\* ticks so far; a call reads the clock after zero or one more tick.
MaxClock == 3

Clock(n) == <<1 + n \div 2, 30 * (n % 2)>>

Readings(n) == {m \in {n, n + 1} : m <= MaxClock}

StampTitles == {<<"a">>, <<"b">>}

\* the changes a caller makes to a loaded task before repo.update(task)
Mutations(task, now) ==
    {[op |-> "update", task |-> [task EXCEPT !.title = title]] :
        title \in StampTitles \ {task.title}}
    \cup {[op |-> "start", task |-> TaskStart(task, now)],
          [op |-> "complete", task |-> TaskComplete(task, None, now)],
          [op |-> "cancel", task |-> TaskCancel(task, now)]}
    \cup (IF Len(task.notes) < MaxNotes
          THEN {[op |-> "add_note", task |-> TaskAddNote(task, <<"n">>, now)]}
          ELSE {})

\* repo.create(Task(title=...)) when the store is empty
StampCreate ==
    \E title \in StampTitles, n \in Readings(issued) :
        /\ files = EmptyFiles
        /\ files' \in CreateOutcomes(files, NewTask(IdA, title, Clock(issued)),
                                     format, Clock(n))
        /\ issued' = n
        /\ mem' = None
        /\ last' = Call("create", IdA, {}, "")
        /\ UNCHANGED <<organization, disk, saved, format, phase, report,
                       occurrence, summary>>

\* task = repo.get(id); a change of the task; repo.update(task).  mem keeps
\* the task as it was loaded.
StampMutate ==
    \E n \in Readings(issued) :
    \E got \in GetOutcomes(files, IdA, Clock(n)) :
        /\ got # None
        /\ \E m \in Mutations(got[1], Clock(n)) :
              /\ files' \in UpdateOutcomes(files, m.task, format, Clock(n))
              /\ last' = Call(m.op, IdA, {}, "")
        /\ issued' = n
        /\ mem' = got
        /\ UNCHANGED <<organization, disk, saved, format, phase, report,
                       occurrence, summary>>

\* repo.delete(id)
StampDelete ==
    \E out \in DeleteOutcomes(files, IdA, Clock(issued)) :
        /\ out.ret
        /\ files' = out.fs
        /\ mem' = None
        /\ last' = Call("delete", IdA, {}, BoolText(out.ret))
        /\ UNCHANGED <<organization, disk, saved, format, phase, issued,
                       report, occurrence, summary>>

StampNext == StampCreate \/ StampMutate \/ StampDelete

SpecStamp == Init /\ [][StampNext]_vars

Spec == Init /\ [][Next]_vars

-----------------------------------------------------------------------------
(* Claims about the codec *)

\* an inline line as a reader of the file sees it: "- [ ] ..." or "- [x] ..."
IsInlineLine(line) ==
    LET l == LStrip(line, {"sp"}) IN
    \/ StartsWith(l, <<"-", "sp", "[", "sp", "]", "sp">>)
    \/ StartsWith(l, <<"-", "sp", "[", "x", "]", "sp">>)

InlineLines(content) ==
    LET lines == Split(content, "nl") IN
    {i \in DOMAIN lines : IsInlineLine(lines[i])}

\* C3: in hybrid format, the file written by a save of a task that was loaded
\* from its file (one or more save / load / mutate / save cycles) holds
\* exactly one inline line, checked iff the task is done.
C3_HybridOneInlineLine ==
    (format = "hybrid" /\ phase.op = "save" /\ phase.fromDisk) =>
        LET content == disk[1].content
            lines   == Split(content, "nl")
        IN  /\ Cardinality(InlineLines(content)) = 1
            /\ \A i \in InlineLines(content) :
                  (LStrip(lines[i], {"sp"})[4] = "x") <=> (mem.status = "done")

\* C3 witness: a done task with a description and two notes, re-saved after
\* a load
C3_Witness ==
    /\ format = "hybrid" /\ phase.op = "save" /\ phase.fromDisk
    /\ mem.status = "done" /\ Len(mem.notes) = 2 /\ mem.description # <<>>

\* field-for-field equality, the description compared after stripping
EqualModuloWhitespace(t, u) ==
    /\ [t EXCEPT !.description = <<>>] = [u EXCEPT !.description = <<>>]
    /\ Strip(t.description) = Strip(u.description)

\* C4: the task loaded from a file equals the task that was saved to it,
\* except for leading/trailing whitespace of the description.
C4_RoundTrip ==
    (phase.op = "load" /\ saved # None) => EqualModuloWhitespace(mem, saved[1])

-----------------------------------------------------------------------------
(* Claims about identifier resolution and file placement *)

\* the stored ids that start with x
MatchingIds(fs, x) == {id \in StoredIds(fs) : StartsWith(id, x)}

\* C1: get(prefix) with two or more stored ids starting with the prefix
\* raises the ambiguity error and returns none of the matching tasks.
C1_AmbiguousRaises ==
    (last.op = "get" /\ Cardinality(MatchingIds(files, last.arg)) >= 2) =>
        (last.exc = "AmbiguousTaskIdError" /\ last.ret = {})

\* C2: get(x) is null when no stored id starts with x, and is the matching
\* task when exactly one does.
C2_GetResolves ==
    last.op = "get" =>
        /\ MatchingIds(files, last.arg) = {} => last.ret = {}
        /\ Cardinality(MatchingIds(files, last.arg)) = 1 =>
              last.ret = MatchingIds(files, last.arg)

\* the subdirectory of a status in kanban organization
KanbanDir(status) ==
    CASE status = "pending"     -> "Backlog"
      [] status = "in_progress" -> "InProgress"
      [] status = "done"        -> "Done"
      [] status = "cancelled"   -> "Cancelled"

\* C6: in kanban organization every task file is in the subdirectory of the
\* task's status, and in no other directory.
C6_KanbanPlacement ==
    organization = "kanban" =>
        \A path \in DOMAIN files :
            path.dir = KanbanDir(files[path].meta["status"])

C8_OneFilePerTask ==
    \A path \in DOMAIN files :
        LET meta == files[path].meta IN
        /\ path = PathIn(BaseDir, TaskFilename(meta["id"], meta["title"]))
        /\ \A other \in DOMAIN files :
              files[other].meta["id"] = meta["id"] => other = path

\* C8 witness: a task was just re-saved under a new title while another task
\* is stored beside it
C8_Witness ==
    /\ last.op = "update" /\ last.val = "title"
    /\ last.arg \in StoredIds(files)
    /\ Cardinality(DOMAIN files) = 2

-----------------------------------------------------------------------------
(* The uuids of the tasks the manager creates *)

IdC == <<"cccc", "3333", "x">>

\* the uuids of new tasks: no two share their first 8 characters
ManagerIds == {IdA, IdB, IdC}

\* the uuid handed to a call that turns out to create no task
IdSpare == <<"dddd", "4444", "x">>

\* uuid4(): the n-th uuid drawn; uuids are interchangeable and never repeat
Uuid4(n) ==
    IF n = 0 THEN IdA
    ELSE IF n = 1 THEN IdB
    ELSE IF n = 2 THEN IdC
    ELSE IdSpare

\* the number of uuids in use after an operation that took fs to fs2
Issued(fs, fs2, n) == n + Cardinality(StoredIds(fs2) \ StoredIds(fs))

-----------------------------------------------------------------------------
(* RecurrenceGenerator (core/recurrence.py) *)

DailyRule ==
    [frequency |-> "daily", interval |-> 1, days_of_week |-> None,
     day_of_month |-> None, end_date |-> None]

\* The calendar.  The day of a datetime <<day, second>> counts from
\* 2024-01-01, which is day 1 and a Monday.
EpochYear == 2024

IsLeap(year) == year % 4 = 0 /\ (year % 100 # 0 \/ year % 400 = 0)

\* calendar.monthrange(year, month)[1]
DaysInMonth(year, month) ==
    IF month = 2 THEN (IF IsLeap(year) THEN 29 ELSE 28)
    ELSE IF month \in {4, 6, 9, 11} THEN 30 ELSE 31

\* the days of the year before the first of the month
RECURSIVE DaysBeforeMonth(_, _)
DaysBeforeMonth(year, month) ==
    IF month = 1 THEN 0
    ELSE DaysBeforeMonth(year, month - 1) + DaysInMonth(year, month - 1)

\* the days since the epoch before the first of January
RECURSIVE DaysBeforeYear(_)
DaysBeforeYear(year) ==
    IF year <= EpochYear THEN 0
    ELSE DaysBeforeYear(year - 1) + (IF IsLeap(year - 1) THEN 366 ELSE 365)

\* the day of datetime(year, month, day)
ToOrdinal(year, month, day) ==
    DaysBeforeYear(year) + DaysBeforeMonth(year, month) + day

RECURSIVE YearOf(_, _)
YearOf(n, year) ==
    IF n <= DaysBeforeYear(year + 1) THEN year ELSE YearOf(n, year + 1)

RECURSIVE MonthOf(_, _, _)
MonthOf(n, year, month) ==
    IF month = 12 \/ n <= DaysBeforeYear(year) + DaysBeforeMonth(year, month + 1)
    THEN month
    ELSE MonthOf(n, year, month + 1)

\* datetime.year, .month, .day of day n
DateFields(n) ==
    LET year  == YearOf(n, EpochYear)
        month == MonthOf(n, year, 1)
    IN  [year |-> year, month |-> month,
         day |-> n - DaysBeforeYear(year) - DaysBeforeMonth(year, month)]

\* datetime.weekday(): 0 is Monday
Weekday(n) == (n - 1) % 7

\* the days to the earliest weekday of the list after after's weekday, or,
\* when the week has none left, to the first listed weekday of the week
\* `interval` weeks on
DaysToListedWeekday(days_of_week, interval, weekday) ==
    LET later == {d \in Range(days_of_week) : d > weekday}
        least(S) == CHOOSE d \in S : \A e \in S : d <= e
    IN  IF later # {} THEN least(later) - weekday
        ELSE 7 - weekday + least(Range(days_of_week)) + 7 * (interval - 1)

\* after + `months` calendar months with the day kept, running on into the
\* following month when the target month is shorter
AddMonths_NoClamp(n, months) ==
    LET f     == DateFields(n)
        total == (f.month - 1) + months
    IN  ToOrdinal(f.year + (total \div 12), (total % 12) + 1, f.day)

\* after + `months` calendar months, the day clamped to the month's last
AddMonths(n, months) ==
    LET f     == DateFields(n)
        total == (f.month - 1) + months
        year  == f.year + (total \div 12)
        month == (total % 12) + 1
        last_day == DaysInMonth(year, month)
    IN  ToOrdinal(year, month, IF f.day > last_day THEN last_day ELSE f.day)

\* get_next_occurrence without the day-of-week list of a weekly rule
NextDay_NoWeekdays(rule, n) ==
    CASE rule.frequency = "daily"   -> n + rule.interval
      [] rule.frequency = "weekly"  -> n + 7 * rule.interval
      [] rule.frequency = "monthly" -> AddMonths(n, rule.interval)
      [] OTHER                      -> AddMonths(n, 12 * rule.interval)

\* the day get_next_occurrence computes before it looks at the end date
NextDay(rule, n) ==
    CASE rule.frequency = "daily"   -> n + rule.interval
      [] rule.frequency = "weekly"  ->
            IF rule.days_of_week # None /\ rule.days_of_week[1] # <<>>
            THEN n + DaysToListedWeekday(rule.days_of_week[1], rule.interval,
                                         Weekday(n))
            ELSE n + 7 * rule.interval
      [] rule.frequency = "monthly" -> AddMonths(n, rule.interval)
      [] OTHER                      -> AddMonths(n, 12 * rule.interval)

\* a > b for datetimes
Later(a, b) == a[1] > b[1] \/ (a[1] = b[1] /\ a[2] > b[2])

\* get_next_occurrence that never looks at the end date
GetNextOccurrence_NoEnd(rule, after) ==
    Some(<<NextDay(rule, after[1]), after[2]>>)

\* get_next_occurrence(rule, after): the time of day is after's
GetNextOccurrence(rule, after) ==
    LET next == <<NextDay(rule, after[1]), after[2]>>
    IN  IF rule.end_date # None /\ Later(next, rule.end_date[1])
        THEN None ELSE Some(next)

\* should_generate_next(template, existing_instances)
ShouldGenerateNext(template, instances) ==
    \A inst \in instances : ~IsOpen(inst)

\* the instance of a template due at `due`; id is the uuid of the new task
NewInstance(template, id, due, now) ==
    [NewTask(id, template.title, now) EXCEPT
        !.description = template.description,
        !.priority = template.priority,
        !.tags = template.tags,
        !.project = template.project,
        !.recurrence_parent_id = template.id,
        !.due_date = due]

\* create_next_instance that builds the instance even when the rule has no
\* next occurrence
CreateNextInstance_Always(template, id, now) ==
    IF template.recurrence = None THEN None
    ELSE LET reference == IF template.due_date # None
                          THEN template.due_date[1] ELSE now
         IN  Some(NewInstance(template, id,
                              GetNextOccurrence(template.recurrence[1], reference),
                              now))

\* create_next_instance(template); id is the uuid of the new task
CreateNextInstance(template, id, now) ==
    IF template.recurrence = None THEN None
    ELSE LET reference == IF template.due_date # None
                          THEN template.due_date[1] ELSE now
             next == GetNextOccurrence(template.recurrence[1], reference)
         IN  IF next = None THEN None
             ELSE Some(NewInstance(template, id, next, now))

\* the uuid of the k-th instance generate_instances builds
InstanceId(k) == <<"eeee", ToString(k), "x">>

\* the loop of generate_instances from `current`, k instances built so far
RECURSIVE GenerateFrom(_, _, _, _, _)
GenerateFrom(template, current, end_date, k, now) ==
    LET next == GetNextOccurrence(template.recurrence[1], current) IN
    IF next = None \/ Later(next[1], end_date) THEN <<>>
    ELSE <<NewInstance(template, InstanceId(k + 1), next, now)>>
         \o GenerateFrom(template, next[1], end_date, k + 1, now)

\* generate_instances that builds an instance for start_date itself too
GenerateInstances_WithStart(template, start_date, end_date, now) ==
    IF template.recurrence = None THEN <<>>
    ELSE <<NewInstance(template, InstanceId(0), Some(start_date), now)>>
         \o GenerateFrom(template, start_date, end_date, 0, now)

\* generate_instances(template, start_date, end_date)
GenerateInstances(template, start_date, end_date, now) ==
    IF template.recurrence = None THEN <<>>
    ELSE GenerateFrom(template, start_date, end_date, 0, now)

-----------------------------------------------------------------------------
(* TaskManager (core/task_manager.py) over the repository.  An operation     *)
(* gives the set of its outcomes: the directory afterwards, the value it     *)
(* returns and the message of the ValueError it raises ("none" if none).     *)

Raise(fs, message) == [fs |-> fs, ret |-> {}, val |-> "", exc |-> message]

Return(fs, ret, val) == [fs |-> fs, ret |-> ret, val |-> val, exc |-> "none"]

\* the tasks list_all() returns
Tasks(fs, now) == {ListAll(fs, now)[path] : path \in DOMAIN ListAll(fs, now)}

\* repository.get on each id of a list
RECURSIVE ResolveAll(_, _, _)
ResolveAll(fs, ids, now) ==
    IF ids = <<>> THEN {<<>>}
    ELSE { <<got>> \o rest : got \in GetOutcomes(fs, Head(ids), now),
                             rest \in ResolveAll(fs, Tail(ids), now) }

\* an add that stores the parent and the dependencies as they were given
ManagerAdd_AsGiven(fs, id, title, parent_id, dependencies, recurrence, fmt, now) ==
    UNION { IF parent_id # None /\ parent = None
            THEN {Raise(fs, "Parent task not found")}
            ELSE IF \E i \in DOMAIN deps : deps[i] = None
            THEN {Raise(fs, "Dependency task not found")}
            ELSE LET task == [NewTask(id, title, now) EXCEPT
                                 !.parent_id = parent_id,
                                 !.dependencies = dependencies,
                                 !.recurrence = recurrence]
                 IN  {Return(fs2, {task.id}, "") :
                         fs2 \in CreateOutcomes(fs, task, fmt, now)} :
        parent \in IF parent_id = None THEN {None}
                   ELSE GetOutcomes(fs, parent_id, now),
        deps \in ResolveAll(fs, dependencies, now) }

\* add(title, parent_id=..., dependencies=..., recurrence=...); id is the
\* uuid of the new task
ManagerAdd(fs, id, title, parent_id, dependencies, recurrence, fmt, now) ==
    UNION { IF parent_id # None /\ parent = None
            THEN {Raise(fs, "Parent task not found")}
            ELSE IF \E i \in DOMAIN deps : deps[i] = None
            THEN {Raise(fs, "Dependency task not found")}
            ELSE LET task == [NewTask(id, title, now) EXCEPT
                                 !.parent_id = IF parent = None THEN None
                                               ELSE parent[1].id,
                                 !.dependencies = [i \in DOMAIN deps |-> deps[i][1].id],
                                 !.recurrence = recurrence]
                 IN  {Return(fs2, {task.id}, "") :
                         fs2 \in CreateOutcomes(fs, task, fmt, now)} :
        parent \in IF parent_id = None THEN {None}
                   ELSE GetOutcomes(fs, parent_id, now),
        deps \in ResolveAll(fs, dependencies, now) }

\* start(task_id)
ManagerStart(fs, task_id, fmt, now) ==
    UNION { IF got = None THEN {Raise(fs, "Task not found")}
            ELSE IF ~ok THEN {Raise(fs, "Task is blocked by")}
            ELSE {Return(fs2, {got[1].id}, "") :
                     fs2 \in UpdateOutcomes(fs, TaskStart(got[1], now), fmt, now)} :
        got \in GetOutcomes(fs, task_id, now),
        ok \in CanStart(fs, task_id, now) }

\* cancel(task_id)
ManagerCancel(fs, task_id, fmt, now) ==
    UNION { IF got = None THEN {Raise(fs, "Task not found")}
            ELSE {Return(fs2, {got[1].id}, "") :
                     fs2 \in UpdateOutcomes(fs, TaskCancel(got[1], now), fmt, now)} :
        got \in GetOutcomes(fs, task_id, now) }

\* the instances of a template among the stored tasks
InstancesOf(fs, template_id, now) ==
    {t \in Tasks(fs, now) : t.recurrence_parent_id = template_id}

\* the next instance of one template, if one is due; id is its uuid
GenerateFor(fs, template, id, fmt, now) ==
    LET instance == CreateNextInstance(template, id, now) IN
    IF ShouldGenerateNext(template, InstancesOf(fs, template.id, now))
       /\ instance # None
    THEN CreateOutcomes(fs, instance[1], fmt, now)
    ELSE {fs}

\* complete(task_id, actual_hours); completing an instance of a recurring
\* template generates the template's next instance, with uuid `fresh`
ManagerComplete(fs, task_id, hours, fresh, fmt, now) ==
    UNION { IF got = None THEN {Raise(fs, "Task not found")}
            ELSE UNION {
                UNION { IF got[1].recurrence_parent_id = None \/ template = None
                        THEN {Return(fs2, {got[1].id}, "")}
                        ELSE {Return(fs3, {got[1].id}, "") :
                                 fs3 \in GenerateFor(fs2, template[1], fresh, fmt, now)} :
                    template \in IF got[1].recurrence_parent_id = None THEN {None}
                                 ELSE GetOutcomes(fs2, got[1].recurrence_parent_id, now) } :
                fs2 \in UpdateOutcomes(fs, TaskComplete(got[1], hours, now), fmt, now) } :
        got \in GetOutcomes(fs, task_id, now) }

\* delete(task_id)
ManagerDelete(fs, task_id, now) ==
    UNION { IF got = None THEN {Raise(fs, "Task not found")}
            ELSE IF GetDependents(fs, got[1].id, now) # {}
            THEN {Raise(fs, "Cannot delete: task(s) depend on this")}
            ELSE IF GetChildren(fs, got[1].id, now) # {}
            THEN {Raise(fs, "Cannot delete: has child task(s)")}
            ELSE {Return(out.fs, {}, BoolText(out.ret)) :
                     out \in DeleteOutcomes(fs, got[1].id, now)} :
        got \in GetOutcomes(fs, task_id, now) }

\* the templates generate_recurring_tasks() creates an instance for
DueTemplates(fs, now) ==
    {t \in Tasks(fs, now) :
        /\ t.recurrence # None
        /\ ShouldGenerateNext(t, InstancesOf(fs, t.id, now))
        /\ CreateNextInstance(t, <<>>, now) # None}

\* generate_recurring_tasks(); n uuids were drawn before the call
RECURSIVE GenerateAll(_, _, _, _, _)
GenerateAll(fs, templates, n, fmt, now) ==
    IF templates = {} THEN {fs}
    ELSE LET t == CHOOSE t \in templates : TRUE IN
         UNION { GenerateAll(fs2, templates \ {t}, Issued(fs, fs2, n), fmt, now) :
                    fs2 \in GenerateFor(fs, t, Uuid4(n), fmt, now) }

GenerateRecurringTasks(fs, n, fmt, now) ==
    {Return(fs2, StoredIds(fs2) \ StoredIds(fs), "") :
        fs2 \in GenerateAll(fs, DueTemplates(fs, now), n, fmt, now)}

-----------------------------------------------------------------------------
(* The task manager over one storage directory *)

\* what add() is called with for the task of uuid id: a parent, or up to two
\* dependencies, each the uuid of another task
AddInputs(id) ==
    {[parent_id |-> p, dependencies |-> <<>>] : p \in {None} \cup (ManagerIds \ {id})}
    \cup {[parent_id |-> None, dependencies |-> <<d>>] : d \in ManagerIds \ {id}}
    \cup {[parent_id |-> None, dependencies |-> <<pair[1], pair[2]>>] :
            pair \in {q \in (ManagerIds \ {id}) \X (ManagerIds \ {id}) : q[1] # q[2]}}

Result(op, arg, out) ==
    [op |-> op, arg |-> arg, ret |-> out.ret, val |-> out.val, exc |-> out.exc]

ManagerTitle == <<"a">>

ManagerInit ==
    /\ files = EmptyFiles
    /\ organization = "flat"
    /\ format = "frontmatter"
    /\ last = NoCall
    /\ CodecIdle
    /\ issued = 0
    /\ report = {}
    /\ occurrence = NoOccurrence
    /\ summary = NoSummary

\* manager.add(title, parent_id=...) / manager.add(title, dependencies=[...])
MAdd ==
    \E now \in NowTimes, in \in AddInputs(Uuid4(issued)) :
    \E out \in ManagerAdd(files, Uuid4(issued), ManagerTitle, in.parent_id,
                          in.dependencies, None, format, now) :
        /\ Uuid4(issued) # IdSpare
        /\ files' = out.fs
        /\ issued' = Issued(files, out.fs, issued)
        /\ last' = Result("add", Uuid4(issued), out)
        /\ UNCHANGED <<organization, mem, disk, saved, format, phase, report, occurrence,
                       summary>>

\* what --parent and --depends may name: the full id or the short id of a
\* task, or an id no task has
RefArgs == {IdA, ShortId(IdA), ShortId(IdB), <<"zzzz">>}

\* dep_list of add_task: no dependency, one, or two
DepArgs ==
    {<<>>} \cup {<<r>> : r \in RefArgs}
    \cup {<<ShortId(IdA), IdB>>, <<ShortId(IdB), <<"zzzz">>>>}

\* task-butler add <title> --parent <id> --depends <id>,<id>: the arguments
\* are kept as typed, the parent before "|" and the dependencies after it
MAddRefs ==
    \E now \in NowTimes, parent_id \in {None} \cup RefArgs,
       dependencies \in DepArgs :
    \E out \in ManagerAdd(files, Uuid4(issued), ManagerTitle, parent_id,
                          dependencies, None, format, now) :
        /\ Uuid4(issued) # IdSpare
        /\ files' = out.fs
        /\ issued' = Issued(files, out.fs, issued)
        /\ last' = Result("add", parent_id \o <<"|">> \o Join(dependencies, ","),
                          out)
        /\ UNCHANGED <<organization, mem, disk, saved, format, phase, report,
                       occurrence, summary>>

AddNext == MAddRefs

SpecAdd == ManagerInit /\ [][AddNext]_vars

\* manager.add(title, recurrence=RecurrenceRule(frequency=DAILY))
MAddTemplate ==
    \E now \in NowTimes :
    LET id == Uuid4(issued) IN
    \E out \in ManagerAdd(files, id, ManagerTitle, None, <<>>,
                          Some(DailyRule), format, now) :
        /\ id # IdSpare
        /\ files' = out.fs
        /\ issued' = Issued(files, out.fs, issued)
        /\ last' = Result("add", id, out)
        /\ UNCHANGED <<organization, mem, disk, saved, format, phase, report, occurrence,
                       summary>>

\* manager.start(task_id)
MStart ==
    \E task_id \in ManagerIds, now \in NowTimes :
    \E out \in ManagerStart(files, task_id, format, now) :
        /\ files' = out.fs
        /\ issued' = Issued(files, out.fs, issued)
        /\ last' = Result("start", task_id, out)
        /\ report' = {}
        /\ summary' = NoSummary
        /\ UNCHANGED <<organization, mem, disk, saved, format, phase, occurrence>>

\* manager.complete(task_id)
MComplete ==
    \E task_id \in ManagerIds, now \in NowTimes :
    \E out \in ManagerComplete(files, task_id, None, Uuid4(issued), format, now) :
        /\ IdSpare \notin StoredIds(out.fs)
        /\ files' = out.fs
        /\ issued' = Issued(files, out.fs, issued)
        /\ last' = Result("complete", task_id, out)
        /\ report' = {}
        /\ summary' = NoSummary
        /\ UNCHANGED <<organization, mem, disk, saved, format, phase, occurrence>>

\* manager.cancel(task_id)
MCancel ==
    \E task_id \in ManagerIds, now \in NowTimes :
    \E out \in ManagerCancel(files, task_id, format, now) :
        /\ files' = out.fs
        /\ issued' = Issued(files, out.fs, issued)
        /\ last' = Result("cancel", task_id, out)
        /\ report' = {}
        /\ summary' = NoSummary
        /\ UNCHANGED <<organization, mem, disk, saved, format, phase, occurrence>>

\* manager.delete(task_id)
MDelete ==
    \E task_id \in ManagerIds, now \in NowTimes :
    \E out \in ManagerDelete(files, task_id, now) :
        /\ files' = out.fs
        /\ issued' = Issued(files, out.fs, issued)
        /\ last' = Result("delete", task_id, out)
        /\ UNCHANGED <<organization, mem, disk, saved, format, phase, report, occurrence,
                       summary>>

\* manager.generate_recurring_tasks()
MGenerate ==
    \E now \in NowTimes :
    \E out \in GenerateRecurringTasks(files, issued, format, now) :
        /\ IdSpare \notin StoredIds(out.fs)
        /\ files' = out.fs
        /\ issued' = Issued(files, out.fs, issued)
        /\ last' = Result("generate", <<>>, out)
        /\ UNCHANGED <<organization, mem, disk, saved, format, phase, report, occurrence,
                       summary>>

\* repo.delete(task_id), under the manager
RepoDelete ==
    \E task_id \in StoredIds(files), now \in NowTimes :
    \E out \in DeleteOutcomes(files, task_id, now) :
        /\ files' = out.fs
        /\ issued' = Issued(files, out.fs, issued)
        /\ last' = Call("repo_delete", task_id, {}, BoolText(out.ret))
        /\ UNCHANGED <<organization, mem, disk, saved, format, phase, report, occurrence,
                       summary>>

\* repo.get_blocking_tasks(task_id): the ids of the tasks returned
MBlocking ==
    \E task_id \in StoredIds(files), now \in NowTimes :
    \E blocking \in GetBlockingTasks(files, task_id, now) :
        /\ last' = Call("get_blocking_tasks", task_id,
                        {t.id : t \in Range(blocking)}, "")
        /\ UNCHANGED <<files, organization, mem, disk, saved, format, phase, issued, report, occurrence,
                       summary>>

ManagerNext ==
    MAdd \/ MStart \/ MComplete \/ MCancel \/ MDelete \/ RepoDelete \/ MBlocking

SpecManager == ManagerInit /\ [][ManagerNext]_vars

\* recurring templates and their instances
RecurNext ==
    MAddTemplate \/ MGenerate \/ MStart \/ MComplete \/ MCancel \/ MDelete

SpecRecur == ManagerInit /\ [][RecurNext]_vars

-----------------------------------------------------------------------------
(* Claims about the task manager *)

StoredDependencies(fs, path) == MetaGetOr(fs[path].meta, "dependencies", <<>>)

StoredStatus(fs, id) ==
    {fs[path].meta["status"] : path \in {q \in DOMAIN fs : fs[q].meta["id"] = id}}

\* some stored task lists id among its dependencies or has id as its parent
HasDependentOrChild(fs, id) ==
    \E path \in DOMAIN fs :
        \/ id \in Range(StoredDependencies(fs, path))
        \/ MetaGetOr(fs[path].meta, "parent_id", None) = id

OpenInstances(fs, template_id) ==
    {path \in DOMAIN fs :
        /\ MetaGetOr(fs[path].meta, "recurrence_parent_id", None) = template_id
        /\ fs[path].meta["status"] \in {"pending", "in_progress"}}

TemplateIds(fs) ==
    {fs[path].meta["id"] : path \in {q \in DOMAIN fs : "recurrence" \in DOMAIN fs[q].meta}}

\* C9: should_generate_next is true exactly when the template has no open
\* instance; no template ever has two open instances; and every task a
\* generate call creates is the only open instance of a stored template.
C9_OneOpenInstance ==
    /\ \A t \in Tasks(files, <<2, 30>>) :
          t.recurrence # None =>
              /\ ShouldGenerateNext(t, InstancesOf(files, t.id, <<2, 30>>))
                    <=> OpenInstances(files, t.id) = {}
              /\ Cardinality(OpenInstances(files, t.id)) <= 1
    /\ last.op = "generate" =>
          \A id \in last.ret :
              \E path \in DOMAIN files :
                  /\ files[path].meta["id"] = id
                  /\ MetaGetOr(files[path].meta, "recurrence_parent_id", None)
                        \in TemplateIds(files)
                  /\ OpenInstances(files, files[path].meta["recurrence_parent_id"])
                        = {path}

\* the dependencies that are stored and open, in the order of the list
RECURSIVE OpenDependencies(_, _)
OpenDependencies(fs, deps) ==
    IF deps = <<>> THEN <<>>
    ELSE (IF StoredStatus(fs, Head(deps)) \cap {"pending", "in_progress"} # {}
          THEN <<Head(deps)>> ELSE <<>>)
         \o OpenDependencies(fs, Tail(deps))

\* C10: for every stored task, get_blocking_tasks returns its dependencies
\* that are stored and open and no other task, and can_start is true exactly
\* when there is none: in particular once every dependency is done or
\* cancelled in the store.
C10_BlockingIsOpenDependencies ==
    \A path \in DOMAIN files :
        LET id   == files[path].meta["id"]
            open == OpenDependencies(files, StoredDependencies(files, path))
        IN  /\ {[i \in DOMAIN b |-> b[i].id] :
                    b \in GetBlockingTasks(files, id, <<2, 30>>)} = {open}
            /\ CanStart(files, id, <<2, 30>>) = {open = <<>>}
            /\ (\A i \in DOMAIN StoredDependencies(files, path) :
                    StoredStatus(files, StoredDependencies(files, path)[i])
                        \subseteq {"done", "cancelled"})
                  => CanStart(files, id, <<2, 30>>) = {TRUE}

\* C10 witness: the last open dependency of a task with two dependencies was
\* just completed, and the task can start
C10_Witness ==
    /\ last.op = "complete" /\ last.exc = "none"
    /\ \E path \in DOMAIN files :
          LET deps == StoredDependencies(files, path) IN
          /\ Len(deps) = 2
          /\ last.arg \in Range(deps)
          /\ \A i \in DOMAIN deps : StoredStatus(files, deps[i]) # {}
          /\ CanStart(files, files[path].meta["id"], <<2, 30>>) = {TRUE}

\* the open dependencies of the stored task id
OpenDependenciesOf(fs, id) ==
    UNION {Range(OpenDependencies(fs, StoredDependencies(fs, path))) :
              path \in {q \in DOMAIN fs : fs[q].meta["id"] = id}}

\* C11: start(id) of a stored task that has an open dependency raises "Task
\* is blocked by" and leaves the directory, and so the task's stored status,
\* as it was; start(id) of a stored task without open dependency returns
\* without error and the stored status of the task is in_progress.
C11_StartBlocked ==
    [][ (last'.op = "start" /\ last'.arg \in StoredIds(files)) =>
            IF OpenDependenciesOf(files, last'.arg) # {}
            THEN /\ last'.exc = "Task is blocked by"
                 /\ files' = files
            ELSE /\ last'.exc = "none"
                 /\ StoredStatus(files', last'.arg) = {"in_progress"}
      ]_vars

\* C11 witness: a start was just rejected for a pending task one of whose two
\* dependencies is done and the other open
C11_Witness ==
    /\ last.op = "start" /\ last.exc = "Task is blocked by"
    /\ StoredStatus(files, last.arg) = {"pending"}
    /\ \E path \in DOMAIN files :
          LET deps == StoredDependencies(files, path) IN
          /\ files[path].meta["id"] = last.arg
          /\ Len(deps) = 2
          /\ Len(OpenDependencies(files, deps)) = 1
          /\ \E i \in DOMAIN deps : StoredStatus(files, deps[i]) = {"done"}

-----------------------------------------------------------------------------
(* Duplicates and the Obsidian commands (cli/commands/obsidian.py): import, *)
(* check and resolve, over the task manager                                 *)

\* str.lower(), token by token
Lower(tok) ==
    CASE tok = "A" -> "a"
      [] tok = "B" -> "b"
      [] OTHER     -> tok

\* title.strip().lower()
NormalizeTitle(title) == LET t == Strip(title) IN [i \in DOMAIN t |-> Lower(t[i])]

\* list_all that drops the done tasks whatever include_done says
RepoListAll_DropDone(fs, include_done, now) ==
    {t \in Tasks(fs, now) : t.status # "done"}

\* TaskRepository.list_all(include_done=...), no other filter given
RepoListAll(fs, include_done, now) ==
    {t \in Tasks(fs, now) : include_done \/ t.status # "done"}

\* both None, or both set and on the same calendar day
SameDay(a, b) ==
    \/ a = None /\ b = None
    \/ a # None /\ b # None /\ DateOf(a[1]) = DateOf(b[1])

\* find_duplicate(title, due_date): the tasks it may return, the first match
\* in the order of the directory; {None} when no task matches
FindDuplicate(fs, title, due_date, now) ==
    LET matches == {t \in RepoListAll(fs, TRUE, now) :
                       /\ NormalizeTitle(t.title) = NormalizeTitle(title)
                       /\ SameDay(t.due_date, due_date)}
    IN  IF matches = {} THEN {None} ELSE {Some(t) : t \in matches}

\* the fields import and the CLI hand to add() and update(); None: not given
Fields(priority, due_date, scheduled_date, start_date, tags) ==
    [priority |-> priority, due_date |-> due_date,
     scheduled_date |-> scheduled_date, start_date |-> start_date,
     tags |-> tags]

\* the task with the given fields set
WithFields(task, f) ==
    [task EXCEPT
        !.priority       = IF f.priority = None THEN @ ELSE f.priority[1],
        !.due_date       = IF f.due_date = None THEN @ ELSE f.due_date,
        !.scheduled_date = IF f.scheduled_date = None THEN @ ELSE f.scheduled_date,
        !.start_date     = IF f.start_date = None THEN @ ELSE f.start_date,
        !.tags           = IF f.tags = None THEN @ ELSE f.tags[1]]

\* add(title, description=..., priority=..., due_date=..., scheduled_date=...,
\* start_date=..., tags=...); id is the uuid of the new task
ManagerAddFields(fs, id, title, description, f, fmt, now) ==
    {Return(fs2, {id}, "") :
        fs2 \in CreateOutcomes(fs,
                   [WithFields(NewTask(id, title, now), f) EXCEPT
                       !.description = description],
                   fmt, now)}

\* update(task_id, ...): the fields given replace the task's
ManagerUpdate(fs, task_id, f, fmt, now) ==
    UNION { IF got = None THEN {Raise(fs, "Task not found")}
            ELSE {Return(fs2, {got[1].id}, "") :
                     fs2 \in UpdateOutcomes(fs, WithFields(got[1], f), fmt, now)} :
        got \in GetOutcomes(fs, task_id, now) }

\* what one line of an imported file came to: the directory afterwards, the
\* list the line was appended to and the ids of the tasks written
Imported(fs, kind, ids) == [fs |-> fs, kind |-> kind, ids |-> ids]

\* task = manager.get(id); task.completed_at = parsed.completed_at;
\* manager.repository.update(task)
StampCompleted(fs, task_id, completed_at, fmt, now) ==
    IF completed_at = None THEN {fs}
    ELSE UNION { IF got = None THEN {fs}
                 ELSE UpdateOutcomes(fs, [got[1] EXCEPT !.completed_at = completed_at],
                                     fmt, now) :
            got \in GetOutcomes(fs, task_id, now) }

\* manager.complete(id) for a checked line, then the completion date of the
\* line if it has one
CompleteFromLine(fs, task_id, parsed, fresh, fmt, now) ==
    UNION { IF out.exc # "none" THEN {Imported(out.fs, "errors", {})}
            ELSE {Imported(fs2, "done", {task_id}) :
                     fs2 \in StampCompleted(out.fs, task_id, parsed.completed_at,
                                            fmt, now)} :
        out \in ManagerComplete(fs, task_id, None, fresh, fmt, now) }

\* the "create new task" branch of _import_single_file
ImportCreate(fs, parsed, n, fmt, now) ==
    UNION { IF add.exc # "none" THEN {Imported(add.fs, "errors", {})}
            ELSE IF parsed.is_completed
            THEN {Imported(c.fs, IF c.kind = "done" THEN "imported" ELSE c.kind,
                           c.ids) :
                     c \in CompleteFromLine(add.fs, Uuid4(n), parsed, Uuid4(n + 1),
                                            fmt, now)}
            ELSE {Imported(add.fs, "imported", {Uuid4(n)})} :
        add \in ManagerAddFields(fs, Uuid4(n), parsed.title, <<>>,
                   Fields(IF parsed.priority # None THEN parsed.priority
                          ELSE Some("medium"),
                          parsed.due_date, parsed.scheduled_date, parsed.start_date,
                          Some(parsed.tags)),
                   fmt, now) }

\* an UPDATE branch that adds the line as a new task and lists it as updated
ImportUpdate_AsNew(fs, existing, parsed, n, fmt, now) ==
    {Imported(c.fs, IF c.kind = "imported" THEN "updated" ELSE c.kind, c.ids) :
        c \in ImportCreate(fs, parsed, n, fmt, now)}

\* the UPDATE branch of _import_single_file for a line that duplicates
\* `existing`
ImportUpdate(fs, existing, parsed, n, fmt, now) ==
    UNION { IF up.exc # "none" THEN {Imported(up.fs, "errors", {})}
            ELSE IF parsed.is_completed /\ existing.status # "done"
            THEN {Imported(c.fs, IF c.kind = "done" THEN "updated" ELSE c.kind,
                           c.ids) :
                     c \in CompleteFromLine(up.fs, existing.id, parsed, Uuid4(n),
                                            fmt, now)}
            ELSE {Imported(up.fs, "updated", {existing.id})} :
        up \in ManagerUpdate(fs, existing.id,
                  Fields(IF parsed.priority # None THEN parsed.priority
                         ELSE Some(existing.priority),
                         parsed.due_date, parsed.scheduled_date, parsed.start_date,
                         IF parsed.tags # <<>> THEN Some(parsed.tags) ELSE None),
                  fmt, now) }

\* _prompt_duplicate_action: the first valid choice among the answers the
\* user types, and the answers left; "eof" when the input ends first
RECURSIVE PromptDuplicateAction(_)
PromptDuplicateAction(answers) ==
    IF answers = <<>> THEN [choice |-> "eof", answers |-> <<>>]
    ELSE IF Head(answers) \in {"s", "u", "f", "a", "A"}
    THEN [choice |-> Head(answers), answers |-> Tail(answers)]
    ELSE PromptDuplicateAction(Tail(answers))

\* what an import run carries from line to line and from file to file: the
\* global_action dict and the answers the user has not typed yet
Run(global_action, answers) ==
    [global_action |-> global_action, answers |-> answers]

\* "Determine action" for a duplicate that ignores global_action
Decide_NoGlobal(duplicate_action, run) ==
    IF duplicate_action # "interactive"
    THEN [action |-> duplicate_action, choice |-> "", run |-> run]
    ELSE LET asked == PromptDuplicateAction(run.answers) IN
         [action |-> CASE asked.choice \in {"a", "s"} -> "skip"
                       [] asked.choice \in {"A", "u"} -> "update"
                       [] asked.choice = "f"          -> "force"
                       [] OTHER                       -> "eof",
          choice |-> asked.choice,
          run    |-> Run(run.global_action, asked.answers)]

\* "Determine action" of _import_single_file for a duplicate: the action,
\* the choice typed at the prompt ("" without prompt) and the run afterwards
Decide(duplicate_action, run) ==
    LET action == IF run.global_action # None THEN run.global_action[1]
                  ELSE duplicate_action
    IN  IF action # "interactive"
        THEN [action |-> action, choice |-> "", run |-> run]
        ELSE LET asked == PromptDuplicateAction(run.answers) IN
             [action |-> CASE asked.choice \in {"a", "s"} -> "skip"
                           [] asked.choice \in {"A", "u"} -> "update"
                           [] asked.choice = "f"          -> "force"
                           [] OTHER                       -> "eof",
              choice |-> asked.choice,
              run    |-> Run(IF asked.choice = "a" THEN Some("skip")
                             ELSE IF asked.choice = "A" THEN Some("update")
                             ELSE run.global_action,
                             asked.answers)]

\* one line of the file handled: the directory afterwards, the list the
\* line was appended to, the ids written, the line number and the line,
\* whether it was a duplicate, the choice typed for it and the run afterwards
Handled(out, i, text, duplicate, choice, run) ==
    [fs |-> out.fs, kind |-> out.kind, ids |-> out.ids, line |-> i,
     text |-> text, duplicate |-> duplicate, choice |-> choice, run |-> run]

\* a "create new task" branch that writes the task in a dry run too
ImportNew_NoPreview(fs, parsed, dry_run, n, fmt, now) ==
    ImportCreate(fs, parsed, n, fmt, now)

\* the "create new task" branch with its dry-run half
ImportNew(fs, parsed, dry_run, n, fmt, now) ==
    IF dry_run THEN {Imported(fs, "imported", {})}
    ELSE ImportCreate(fs, parsed, n, fmt, now)

\* the body of the loop of _import_single_file for line i
ImportLine(fs, rawline, i, duplicate_action, dry_run, run, n, fmt, now) ==
    LET line == Strip(rawline)
        p    == FromObsidianLine(line)
    IN  IF ~StartsWith(line, <<"-", "sp", "[">>)
        THEN {Handled(Imported(fs, "none", {}), i, line, FALSE, "", run)}
        ELSE IF p = None
        THEN {Handled(Imported(fs, "errors", {}), i, line, FALSE, "", run)}
        ELSE UNION {
            IF existing = None
            THEN {Handled(out, i, line, FALSE, "", run) :
                     out \in ImportNew(fs, p[1], dry_run, n, fmt, now)}
            ELSE LET d == Decide(duplicate_action, run) IN
                 IF d.action = "eof"
                 THEN {Handled(Imported(fs, "eof", {}), i, line, TRUE, d.choice, d.run)}
                 ELSE IF d.action = "skip"
                 THEN {Handled(Imported(fs, "skipped", {}), i, line, TRUE, d.choice,
                               d.run)}
                 ELSE IF d.action = "update"
                 THEN {Handled(out, i, line, TRUE, d.choice, d.run) :
                          out \in IF dry_run THEN {Imported(fs, "updated", {})}
                                  ELSE ImportUpdate(fs, existing[1], p[1], n, fmt,
                                                    now)}
                 ELSE {Handled(out, i, line, TRUE, d.choice, d.run) :
                          out \in ImportNew(fs, p[1], dry_run, n, fmt, now)} :
            existing \in FindDuplicate(fs, p[1].title, p[1].due_date, now) }

\* the entry of the log for a line handled, in file number k
LogEntry(k, h) ==
    [file |-> k, line |-> h.line, text |-> h.text, kind |-> h.kind,
     duplicate |-> h.duplicate, choice |-> h.choice, ids |-> h.ids]

\* a loop that ends at the first line that does not parse
RECURSIVE ImportLines_StopAtError(_, _, _, _, _, _, _, _, _, _)
ImportLines_StopAtError(fs, lines, i, k, duplicate_action, dry_run, run, n, fmt, now) ==
    IF lines = <<>> THEN {[fs |-> fs, run |-> run, log |-> <<>>]}
    ELSE UNION {
            IF one.kind = "errors"
            THEN {[fs |-> one.fs, run |-> one.run, log |-> <<LogEntry(k, one)>>]}
            ELSE {[rest EXCEPT !.log = <<LogEntry(k, one)>> \o @] :
                     rest \in ImportLines_StopAtError(one.fs, Tail(lines), i + 1,
                                 k, duplicate_action, dry_run, one.run,
                                 Issued(fs, one.fs, n), fmt, now)} :
            one \in ImportLine(fs, Head(lines), i, duplicate_action, dry_run,
                               run, n, fmt, now) }

\* the loop of _import_single_file from line i on; n uuids were drawn before
RECURSIVE ImportLines(_, _, _, _, _, _, _, _, _, _)
ImportLines(fs, lines, i, k, duplicate_action, dry_run, run, n, fmt, now) ==
    IF lines = <<>> THEN {[fs |-> fs, run |-> run, log |-> <<>>]}
    ELSE UNION {
            {[rest EXCEPT !.log = <<LogEntry(k, one)>> \o @] :
                rest \in ImportLines(one.fs, Tail(lines), i + 1, k,
                                     duplicate_action, dry_run, one.run,
                                     Issued(fs, one.fs, n), fmt, now)} :
            one \in ImportLine(fs, Head(lines), i, duplicate_action, dry_run,
                               run, n, fmt, now) }

\* _import_single_file(file, manager, formatter, duplicate_action, dry_run,
\* global_action) for file number k
ImportSingleFile(fs, content, k, duplicate_action, dry_run, run, n, fmt, now) ==
    ImportLines(fs, Split(content, "nl"), 1, k, duplicate_action, dry_run, run,
                n, fmt, now)

\* the loop of import_tasks over the files collected, from file number k on
RECURSIVE ImportFrom(_, _, _, _, _, _, _, _, _)
ImportFrom(fs, contents, k, duplicate_action, dry_run, run, n, fmt, now) ==
    IF contents = <<>> THEN {[fs |-> fs, run |-> run, log |-> <<>>]}
    ELSE UNION {
            {[rest EXCEPT !.log = one.log \o @] :
                rest \in ImportFrom(one.fs, Tail(contents), k + 1,
                                    duplicate_action, dry_run, one.run,
                                    Issued(fs, one.fs, n), fmt, now)} :
            one \in ImportSingleFile(fs, Head(contents), k, duplicate_action,
                                     dry_run, run, n, fmt, now) }

\* the entries of a log of one kind
OfKind(log, kind) == SelectSeq(log, LAMBDA e : e.kind = kind)

\* the line numbers of a list of entries
RECURSIVE LineNumbers(_)
LineNumbers(log) ==
    IF log = <<>> THEN <<>> ELSE <<Head(log).line>> \o LineNumbers(Tail(log))

\* the ids written by the lines of a log
RECURSIVE IdsWritten(_)
IdsWritten(log) ==
    IF log = <<>> THEN {} ELSE Head(log).ids \cup IdsWritten(Tail(log))

\* total_imported, total_updated, total_skipped and total_errors of
\* import_tasks, with the lines handled in the order they were handled
Summary(log, dry_run) ==
    [imported |-> Len(OfKind(log, "imported")),
     updated  |-> Len(OfKind(log, "updated")),
     skipped  |-> Len(OfKind(log, "skipped")),
     errors   |-> LineNumbers(OfKind(log, "errors")),
     dry_run  |-> dry_run,
     log      |-> SelectSeq(log, LAMBDA e : e.kind # "none")]

\* import_tasks(path, --skip | --update | --force | --interactive, --dry-run)
\* on the files of `contents`, the user typing `answers` at the prompts
ImportTasks(fs, contents, duplicate_action, dry_run, answers, n, fmt, now) ==
    ImportFrom(fs, contents, 1, duplicate_action, dry_run, Run(None, answers), n,
               fmt, now)

\* the first task line of a file that is not the first line starting "- ["
\* but the last one
RECURSIVE FirstTaskLine_Last(_)
FirstTaskLine_Last(lines) ==
    IF lines = <<>> THEN 0
    ELSE IF StartsWith(Strip(lines[Len(lines)]), <<"-", "sp", "[">>) THEN Len(lines)
    ELSE FirstTaskLine_Last(SubSeq(lines, 1, Len(lines) - 1))

\* the index of the first line that, stripped, starts with "- ["; 0 if none
RECURSIVE FirstTaskLine(_)
FirstTaskLine(lines) ==
    IF lines = <<>> THEN 0
    ELSE IF StartsWith(Strip(Head(lines)), <<"-", "sp", "[">>) THEN 1
    ELSE LET r == FirstTaskLine(Tail(lines)) IN IF r = 0 THEN 0 ELSE r + 1

\* the conflicts `check` finds for one task: none when the file is missing
\* or holds no task line
CheckTask(fs, task) ==
    { IF ~Exists(fs, task_path) THEN <<>>
      ELSE LET lines == Split(fs[task_path].content, "nl")
               i     == FirstTaskLine(lines)
           IN  IF i = 0 THEN <<>>
               ELSE DetectConflicts(task, Strip(lines[i])) :
        task_path \in TaskPath(fs, task.id, <<>>) }

\* check_conflicts: the tasks printed with their conflicts
RECURSIVE CheckEach(_, _)
CheckEach(fs, tasks) ==
    IF tasks = {} THEN {{}}
    ELSE LET task == CHOOSE t \in tasks : TRUE IN
         { (IF conflicts = <<>> THEN {}
            ELSE {[id |-> task.id, conflicts |-> conflicts]}) \cup rest :
              conflicts \in CheckTask(fs, task),
              rest \in CheckEach(fs, tasks \ {task}) }

CheckConflicts(fs, now) == CheckEach(fs, RepoListAll(fs, TRUE, now))

\* the 'obsidian' strategy: the fields of the task line replace the task's
ApplyParsed(task, parsed) ==
    LET t == IF parsed.is_completed /\ task.status # "done"
             THEN [task EXCEPT !.status = "done",
                               !.completed_at = IF parsed.completed_at # None
                                                THEN parsed.completed_at ELSE @]
             ELSE IF ~parsed.is_completed /\ task.status = "done"
             THEN [task EXCEPT !.status = "pending", !.completed_at = None]
             ELSE task
    IN  [WithFields(t, Fields(parsed.priority, parsed.due_date,
                              parsed.scheduled_date, parsed.start_date, None))
            EXCEPT !.tags = parsed.tags]

\* the body of the loop of resolve_conflicts for one task: the directory
\* afterwards and whether the task was counted as resolved
ResolveTask(fs, task, strategy, dry_run, fmt, now) ==
    UNION { IF ~Exists(fs, task_path) THEN {[fs |-> fs, ids |-> {}]}
            ELSE LET lines == Split(fs[task_path].content, "nl")
                     i     == FirstTaskLine(lines)
                     line  == Strip(lines[i])
                 IN  IF i = 0 THEN {[fs |-> fs, ids |-> {}]}
                     ELSE IF DetectConflicts(task, line) = <<>>
                     THEN {[fs |-> fs, ids |-> {}]}
                     ELSE IF dry_run THEN {[fs |-> fs, ids |-> {task.id}]}
                     ELSE IF strategy = "frontmatter"
                     THEN {[fs |-> WriteText(fs, task_path,
                                     [fs[task_path] EXCEPT !.content =
                                         Join([lines EXCEPT ![i] = ToObsidianLine(task)],
                                              "nl")]),
                            ids |-> {task.id}]}
                     ELSE {[fs |-> fs2, ids |-> {task.id}] :
                              fs2 \in UpdateOutcomes(fs,
                                         ApplyParsed(task, FromObsidianLine(line)[1]),
                                         fmt, now)} :
        task_path \in TaskPath(fs, task.id, <<>>) }

\* the loop of resolve_conflicts over the tasks listed before it starts
RECURSIVE ResolveEach(_, _, _, _, _, _)
ResolveEach(fs, tasks, strategy, dry_run, fmt, now) ==
    IF tasks = {} THEN {[fs |-> fs, ids |-> {}]}
    ELSE LET task == CHOOSE t \in tasks : TRUE IN
         UNION { {[fs |-> rest.fs, ids |-> one.ids \cup rest.ids] :
                     rest \in ResolveEach(one.fs, tasks \ {task}, strategy, dry_run,
                                          fmt, now)} :
                 one \in ResolveTask(fs, task, strategy, dry_run, fmt, now) }

\* resolve_conflicts(strategy, task_id): for one task, or for all (task_id None)
ResolveConflicts(fs, strategy, task_id, dry_run, fmt, now) ==
    IF strategy \notin {"frontmatter", "obsidian"}
    THEN {Raise(fs, "Invalid strategy")}
    ELSE UNION {
            IF task_id # None /\ got = None THEN {Raise(fs, "Task not found")}
            ELSE {Return(out.fs, out.ids, "") :
                     out \in ResolveEach(fs, IF task_id # None THEN {got[1]}
                                             ELSE RepoListAll(fs, TRUE, now),
                                         strategy, dry_run, fmt, now)} :
            got \in IF task_id = None THEN {None}
                    ELSE GetOutcomes(fs, task_id, now) }

-----------------------------------------------------------------------------
(* The Obsidian commands over one storage directory in hybrid format, whose *)
(* files a user also edits in Obsidian                                      *)

SyncInit ==
    /\ files = EmptyFiles
    /\ organization = "flat"
    /\ format = "hybrid"
    /\ last = NoCall
    /\ CodecIdle
    /\ issued = 0
    /\ report = {}
    /\ occurrence = NoOccurrence
    /\ summary = NoSummary

\* manager.add(title, description=..., priority=..., due_date=..., tags=...)
\* while fewer than `most` tasks were added
AddWith(titles, descriptions, fields, most) ==
    \E title \in titles, description \in descriptions, f \in fields,
       now \in NowTimes :
    \E out \in ManagerAddFields(files, Uuid4(issued), title, description, f,
                                format, now) :
        /\ issued < most
        /\ files' = out.fs
        /\ issued' = Issued(files, out.fs, issued)
        /\ last' = Result("add", Uuid4(issued), out)
        /\ report' = {}
        /\ summary' = NoSummary
        /\ UNCHANGED <<organization, mem, disk, saved, format, phase, occurrence>>

\* the file with its first line replaced
WithFirstLine(file, line) ==
    [file EXCEPT !.content = Join([Split(@, "nl") EXCEPT ![1] = line], "nl")]

\* a change a user makes to a task line: the checkbox and the completion
\* date, and for priority, due date and tags whether they are kept or what
\* replaces them
Edit(status, completed_at, priority, keep_due, due_date, tags) ==
    [status |-> status, completed_at |-> completed_at, priority |-> priority,
     keep_due |-> keep_due, due_date |-> due_date, tags |-> tags]

Edited(task, e) ==
    [task EXCEPT !.status       = e.status,
                 !.completed_at = e.completed_at,
                 !.priority     = IF e.priority = None THEN @ ELSE e.priority[1],
                 !.due_date     = IF e.keep_due THEN @ ELSE e.due_date,
                 !.tags         = IF e.tags = None THEN @ ELSE e.tags[1]]

\* the user edits the task line of a file in Obsidian: the line becomes the
\* line of the task with the changes of one of `edits` made to it
EditWith(edits) ==
    \E path \in DOMAIN files, f \in edits, now \in NowTimes :
        LET task == LoadFromPath(files[path], now)
            line == ToObsidianLine(Edited(task, f))
        IN  /\ HasCheckbox(Split(files[path].content, "nl")[1])
            /\ files' = WriteText(files, path, WithFirstLine(files[path], line))
            /\ files' # files
            /\ last' = Call("edit", task.id, {}, "")
            /\ summary' = NoSummary
            /\ UNCHANGED <<organization, mem, disk, saved, format, phase, issued,
                           report, occurrence>>

\* task-butler obsidian check
SCheck ==
    \E now \in NowTimes :
    \E found \in CheckConflicts(files, now) :
        /\ report' = found
        /\ last' = Call("check", <<>>, {r.id : r \in found}, "")
        /\ summary' = NoSummary
        /\ UNCHANGED <<files, organization, mem, disk, saved, format, phase, issued, occurrence>>

\* task-butler obsidian resolve --strategy ... [--task ...] [--dry-run]
SResolve ==
    \E strategy \in {"frontmatter", "obsidian", "other"},
       task_id \in {None, IdA}, dry_run \in BOOLEAN, now \in NowTimes :
    \E out \in ResolveConflicts(files, strategy, task_id, dry_run, format, now) :
        /\ files' = out.fs
        /\ issued' = Issued(files, out.fs, issued)
        /\ last' = [Result("resolve", task_id, out) EXCEPT !.val = strategy]
        /\ summary' = NoSummary
        /\ UNCHANGED <<organization, mem, disk, saved, format, phase, report, occurrence>>

\* an import option with what the user types at its prompts: nothing is
\* typed without --interactive
Option(duplicate_action, answers) ==
    [duplicate_action |-> duplicate_action, answers |-> answers]

\* task-butler obsidian import <path> with one of --skip, --update, --force,
\* --interactive, while no more than `most` tasks were added; the user has
\* an answer for every prompt
ImportWith(runs, options, most) ==
    \E contents \in runs, dry_run \in BOOLEAN, now \in NowTimes,
       option \in options :
    LET duplicate_action == option.duplicate_action
        answers          == option.answers
    IN
    \E out \in ImportTasks(files, contents, duplicate_action, dry_run, answers,
                           issued, format, now) :
        /\ Issued(files, out.fs, issued) <= most
        /\ \A i \in 1..Len(out.log) : out.log[i].kind # "eof"
        /\ files' = out.fs
        /\ issued' = Issued(files, out.fs, issued)
        /\ last' = Call("import", Join(contents, "eof"), IdsWritten(out.log),
                        duplicate_action)
        /\ summary' = Summary(out.log, dry_run)
        /\ UNCHANGED <<organization, mem, disk, saved, format, phase, report,
                       occurrence>>

\* manager.find_duplicate(title, due_date)
FindWith(titles, dues) ==
    \E title \in titles, due_date \in dues, now \in NowTimes :
    \E found \in FindDuplicate(files, title, due_date, now) :
        /\ last' = Call("find_duplicate", title \o DateText(due_date),
                        {t.id : t \in Range(found)}, "")
        /\ summary' = NoSummary
        /\ UNCHANGED <<files, organization, mem, disk, saved, format, phase, issued,
                       report, occurrence>>

\* tasks, task lines and lookups of the sync machine: two titles that differ
\* in case only, with and without due date
SyncTitles == {<<"a">>, <<"A">>}

SyncFields == {Fields(None, due, None, None, None) : due \in {None, Some(<<2, 30>>)}}

\* the user checks the box, with or without completion date, or unchecks it
SyncEdits ==
    {Edit("done", None, None, TRUE, None, None),
     Edit("done", Some(<<1, 0>>), None, TRUE, None, None),
     Edit("pending", None, None, TRUE, None, None)}

\* the notes imported: one line each, and one of two lines
ImportFiles ==
    { <<"-", "sp", "[", "sp", "]", "sp", "a">>,
      <<"-", "sp", "[", "x", "]", "sp", "A", "sp", "<done>", "sp", "2024-01-01">>,
      <<"-", "sp", "[", "x", "]", "sp", "a", "sp", "<due>", "sp", "2024-01-02">>,
      <<"a">>,
      <<"-", "sp", "[", "sp", "]", "sp", "b", "nl",
        "-", "sp", "[", "X", "]", "sp", "b">> }

\* --skip (the default), --update and --force
SyncOptions == {Option(a, <<>>) : a \in {"skip", "update", "force"}}

LookupTitles == {<<"a">>, <<"sp", "A", "sp">>, <<"b">>}

LookupDues == {None, Some(<<2, 0>>), Some(<<1, 0>>)}

SyncAdd == AddWith(SyncTitles, {<<>>}, SyncFields, 1)

SyncEdit == EditWith(SyncEdits)

SyncImport == ImportWith({<<content>> : content \in ImportFiles}, SyncOptions, 1)

SyncFind == FindWith(LookupTitles, LookupDues)

SyncNext ==
    SyncAdd \/ MComplete \/ SyncEdit \/ SResolve \/ SyncImport \/ SyncFind

SpecSync == SyncInit /\ [][SyncNext]_vars

\* one task of any priority, with or without due date and tags, whose title
\* may hold a hashtag, and the lines a user may turn its task line into
LineTitles == {<<"a">>, <<"a", "sp", "#", "b">>}

LineFields ==
    {Fields(Some("medium"), None, None, None, Some(<<>>))}
    \cup {Fields(Some(p), Some(<<2, 30>>), None, None, Some(<<"work", "home">>)) :
            p \in Priorities}

\* the box checked or not, and nothing else changed or priority, due date and
\* tags all changed; or one of them changed: the priority, the due date
\* removed, the due date moved, a tag removed
LineEdits ==
    {Edit(status, None, None, TRUE, None, None) : status \in {"pending", "done"}}
    \cup {Edit(status, None, Some("urgent"), FALSE, Some(<<1, 0>>), Some(<<"home">>)) :
            status \in {"pending", "done"}}
    \cup {Edit("pending", None, Some("urgent"), TRUE, None, None),
          Edit("pending", None, None, FALSE, None, None),
          Edit("pending", None, None, FALSE, Some(<<1, 0>>), None),
          Edit("pending", None, None, TRUE, None, Some(<<"home">>))}

\* no description, or a checklist line
LineDescriptions == {<<>>, <<"-", "sp", "[", "x", "]", "sp", "b">>}

LineAdd == AddWith(LineTitles, LineDescriptions, LineFields, 1)

LineEdit == EditWith(LineEdits)

LineNext == LineAdd \/ MStart \/ MComplete \/ MCancel \/ LineEdit \/ SCheck

SpecLine == SyncInit /\ [][LineNext]_vars

-----------------------------------------------------------------------------
(* Import runs over several lines and files *)

MaxImported == 2

\* a note with one open task, one with that task checked and due, one with
\* the same task twice and one with a task line that does not parse between
\* two that do
NoteOpen == <<"-", "sp", "[", "sp", "]", "sp", "a">>

NoteDone ==
    <<"-", "sp", "[", "x", "]", "sp", "a", "sp", "<due>", "sp", "2024-01-02">>

NoteTwice == NoteOpen \o <<"nl">> \o NoteOpen

NoteBroken ==
    NoteOpen \o <<"nl", "-", "sp", "[", "]", "sp", "b", "nl">>
    \o <<"-", "sp", "[", "sp", "]", "sp", "c">>

\* the files an import run collects: a single file or a directory of two
ImportRuns ==
    {<<NoteOpen>>, <<NoteDone>>, <<NoteBroken>>, <<NoteTwice, NoteOpen>>}

\* what the user types at the prompts of --interactive
ImportAnswers ==
    {<<"u", "f", "s">>, <<"a", "f", "u">>, <<"A", "s", "f">>, <<"s", "a", "f">>,
     <<"x", "f", "A", "s">>}

ImportOptions ==
    {Option(a, <<>>) : a \in {"skip", "update", "force"}}
    \cup {Option("interactive", answers) : answers \in ImportAnswers}

ImportAdd ==
    AddWith({<<"a">>}, {<<>>},
            {Fields(None, due, None, None, None) : due \in {None, Some(<<2, 30>>)}},
            1)

ImportRun == ImportWith(ImportRuns, ImportOptions, MaxImported)

ImportNext == ImportAdd \/ ImportRun

SpecImport == SyncInit /\ [][ImportNext]_vars

------------------------------------------------------------------------------
(* The recurrence generator on its own: a template is drawn, then the
   generator's functions are applied to it *)

MaxInterval == 3

\* RecurrenceRule(frequency=..., interval=..., days_of_week=..., end_date=...)
CalendarRules ==
    { [frequency |-> frequency, interval |-> interval,
       days_of_week |-> days_of_week, day_of_month |-> None,
       end_date |-> end_date] :
        frequency \in {"daily", "weekly", "monthly", "yearly"},
        interval \in 1..MaxInterval,
        days_of_week \in {None, Some(<<0, 2, 4>>), Some(<<6>>)},
        end_date \in {None, Some(<<20, 0>>)} }

\* Task(title=..., recurrence=RecurrenceRule(...)) with the copied fields set
CalendarTemplates ==
    { [NewTask(IdA, <<"a">>, <<1, 0>>) EXCEPT
          !.description = <<"d">>,
          !.priority = "high",
          !.tags = <<"work">>,
          !.project = Some("p"),
          !.due_date = due_date,
          !.recurrence = Some(rule)] :
        rule \in {r \in CalendarRules :
                     r.days_of_week = None \/ r.frequency = "weekly"},
        due_date \in {None, Some(<<31, 0>>)} }

\* 2024-01-01, 01-15 (a Monday), 01-18, 01-21 (a Sunday) with a time of
\* day, 01-31, 02-29, 03-15 and 12-31
AfterDates ==
    {<<1, 0>>, <<15, 0>>, <<18, 0>>, <<21, 30>>, <<31, 0>>, <<60, 0>>,
     <<75, 0>>, <<366, 0>>}

\* 2024-01-01 and 2024-01-15
StartDates == {<<1, 0>>, <<15, 0>>}

\* 2024-01-07, 2024-01-20 and 2024-03-15
EndDates == {<<7, 0>>, <<20, 0>>, <<75, 0>>}

CalendarInit ==
    /\ files = EmptyFiles
    /\ organization = "flat"
    /\ format = "frontmatter"
    /\ last = NoCall
    /\ mem \in CalendarTemplates
    /\ disk = None
    /\ saved = None
    /\ phase = [op |-> "idle", fromDisk |-> FALSE]
    /\ issued = 1
    /\ report = {}
    /\ occurrence = NoOccurrence
    /\ summary = NoSummary

\* generator.get_next_occurrence(template.recurrence, after)
CalNextOccurrence ==
    \E after \in AfterDates :
        /\ occurrence' = [op |-> "get_next_occurrence", after |-> after,
                          until |-> <<0, 0>>,
                          next |-> GetNextOccurrence(mem.recurrence[1], after),
                          instances |-> <<>>]
        /\ UNCHANGED <<files, organization, last, mem, disk, saved, format,
                       phase, issued, report, summary>>

\* generator.generate_instances(template, start_date, end_date)
CalGenerateInstances ==
    \E start_date \in StartDates, end_date \in EndDates, now \in NowTimes :
        /\ occurrence' = [op |-> "generate_instances", after |-> start_date,
                          until |-> end_date, next |-> None,
                          instances |-> GenerateInstances(mem, start_date,
                                                          end_date, now)]
        /\ UNCHANGED <<files, organization, last, mem, disk, saved, format,
                       phase, issued, report, summary>>

\* generator.create_next_instance(template) at the time `now`
CalCreateNextInstance ==
    \E now \in AfterDates :
        LET instance == CreateNextInstance(mem, Uuid4(issued), now) IN
        /\ occurrence' = [op |-> "create_next_instance", after |-> now,
                          until |-> <<0, 0>>, next |-> None,
                          instances |-> IF instance = None THEN <<>>
                                        ELSE <<instance[1]>>]
        /\ UNCHANGED <<files, organization, last, mem, disk, saved, format,
                       phase, issued, report, summary>>

CalendarNext == CalNextOccurrence \/ CalGenerateInstances \/ CalCreateNextInstance

SpecCalendar == CalendarInit /\ [][CalendarNext]_vars

------------------------------------------------------------------------------
(* Claims about the Obsidian commands *)

\* C12: after any sequence of add, complete, import and resolve commands and
\* of edits of the task lines, every stored task has completed_at set exactly
\* when its status is done.
C12_CompletedAtIffDone ==
    \A path \in DOMAIN files :
        ("completed_at" \in DOMAIN files[path].meta)
            <=> (files[path].meta["status"] = "done")

\* the two titles are the same text once trimmed, whatever the case of
\* their letters
SameTitle(a, b) ==
    LET x == Strip(a)
        y == Strip(b)
    IN  Len(x) = Len(y) /\ \A i \in DOMAIN x : Lower(x[i]) = Lower(y[i])

\* the ids of the stored tasks with the title, and with the due day or, for
\* None, without due date
StoredDuplicates(fs, title, due_date) ==
    {fs[path].meta["id"] :
        path \in {q \in DOMAIN fs :
            /\ SameTitle(fs[q].meta["title"], title)
            /\ IF due_date = None THEN "due_date" \notin DOMAIN fs[q].meta
               ELSE /\ "due_date" \in DOMAIN fs[q].meta
                    /\ fs[q].meta["due_date"][1] = due_date[1][1]}}

\* C13: for every title and due date looked up, find_duplicate returns a
\* task exactly when a stored task, of any status, has the same title after
\* trimming and case-folding and the same due day or, like the lookup, no due
\* date; the task returned is such a task.
C13_FindDuplicate ==
    \A title \in LookupTitles, due_date \in LookupDues :
        LET found == FindDuplicate(files, title, due_date, <<2, 30>>)
            dups  == StoredDuplicates(files, title, due_date)
        IN  /\ None \in found <=> dups = {}
            /\ {f[1].id : f \in found \ {None}} = dups

\* C13 witness: a lookup just returned a done task whose stored title differs
\* from the title looked up and whose due date is at another time of the
\* same day
C13_Witness ==
    /\ last.op = "find_duplicate" /\ last.ret # {}
    /\ \E path \in DOMAIN files :
          /\ files[path].meta["id"] \in last.ret
          /\ files[path].meta["status"] = "done"
          /\ files[path].meta["title"] = <<"A">>
          /\ MetaGet(files[path].meta, "due_date") = Some(<<2, 30>>)
          /\ last.arg = <<"a", "2024-01-02">>

\* the task line of the file is the line save() writes for the stored task
FreshlyWritten(file) ==
    Split(file.content, "nl")[1] = ToObsidianLine(LoadFromPath(file, <<2, 30>>))

\* the conflicts the last check printed for a task
Reported(id) ==
    IF \E r \in report : r.id = id
    THEN (CHOOSE r \in report : r.id = id).conflicts
    ELSE <<>>

\* C14: for every stored task, of any status, priority, due date and tags,
\* detect_conflicts of the task and its own task line is empty; and a check
\* prints no conflict for a file whose task line is the one save() wrote.
C14_NoConflictWithOwnLine ==
    \A path \in DOMAIN files :
        LET task == LoadFromPath(files[path], <<2, 30>>) IN
        /\ DetectConflicts(task, ToObsidianLine(task)) = <<>>
        /\ (last.op = "check" /\ FreshlyWritten(files[path]))
              => Reported(task.id) = <<>>

\* the value of a field on the task's side and on the line's side, as
\* detect_conflicts compares them: done or not, the priority (medium without
\* emoji), the due day, the set of tags
TaskSide(task, field) ==
    CASE field = "status"   -> <<IF task.status = "done" THEN "done" ELSE "open">>
      [] field = "priority" -> <<task.priority>>
      [] field = "due_date" -> DateText(task.due_date)
      [] OTHER              -> SortedTags(Range(task.tags))

LineSide(parsed, field) ==
    CASE field = "status"   -> <<IF parsed.is_completed THEN "done" ELSE "open">>
      [] field = "priority" -> IF parsed.priority = None THEN <<"medium">>
                               ELSE parsed.priority
      [] field = "due_date" -> DateText(parsed.due_date)
      [] OTHER              -> SortedTags(Range(parsed.tags))

ConflictFields == {"status", "priority", "due_date", "tags"}

\* C15: after a check, the conflicts printed for a stored task are one per
\* field among status, priority, due_date and tags whose value in the task
\* differs from the value its task line decodes to (due dates by day, tags as
\* sets), each with the name of the field and both values, and nothing else.
C15_OneConflictPerField ==
    last.op = "check" =>
        \A path \in DOMAIN files :
            LET task     == LoadFromPath(files[path], <<2, 30>>)
                parsed   == FromObsidianLine(Split(files[path].content, "nl")[1])[1]
                differs  == {f \in ConflictFields :
                                TaskSide(task, f) # LineSide(parsed, f)}
                reported == Reported(task.id)
            IN  /\ {c.field : c \in Range(reported)} = differs
                /\ Len(reported) = Cardinality(differs)
                /\ \A c \in Range(reported) :
                      /\ c.field # "status" =>
                            /\ c.frontmatter_value = TaskSide(task, c.field)
                            /\ c.obsidian_value = LineSide(parsed, c.field)
                      /\ c.field = "status" =>
                            /\ c.frontmatter_value = <<task.status>>
                            /\ c.obsidian_value =
                                  <<IF parsed.is_completed THEN "done" ELSE "pending">>

\* C15 witness: a check just printed four conflicts for a task, and the due
\* date of the task and of its line are on different days
C15_Witness ==
    /\ last.op = "check"
    /\ \E r \in report :
          /\ Len(r.conflicts) = 4
          /\ \E c \in Range(r.conflicts) :
                /\ c.field = "due_date"
                /\ c.frontmatter_value = <<"2024-01-02">>
                /\ c.obsidian_value = <<"2024-01-01">>

------------------------------------------------------------------------------
(* Claims about the recurrence generator *)

\* the rule of the template the generator was called with
CalledRule == mem.recurrence[1]

\* the smaller of the day and the last day of the month
ClampedDay(year, month, day) ==
    IF day > DaysInMonth(year, month) THEN DaysInMonth(year, month) ELSE day

\* C16: get_next_occurrence for a monthly rule returns the date `interval`
\* calendar months after `after`, the day of the month clamped to the last
\* day of the target month when that month is shorter (2024-01-31 + 1 month
\* = 2024-02-29); for a yearly rule it returns the same month and day
\* `interval` years later, 29 February falling back to the last valid day
\* of February.  The time of day is kept.
C16_MonthlyYearly ==
    (/\ occurrence.op = "get_next_occurrence"
     /\ CalledRule.frequency \in {"monthly", "yearly"}
     /\ occurrence.next # None)
    => LET from   == DateFields(occurrence.after[1])
           to     == DateFields(occurrence.next[1][1])
           months == IF CalledRule.frequency = "monthly"
                     THEN CalledRule.interval ELSE 12 * CalledRule.interval
           count  == 12 * from.year + (from.month - 1) + months
       IN  /\ 12 * to.year + (to.month - 1) = count
           /\ to.day = ClampedDay(to.year, to.month, from.day)
           /\ occurrence.next[1][2] = occurrence.after[2]
           /\ (CalledRule.frequency = "yearly"
               => /\ to.year = from.year + CalledRule.interval
                  /\ to.month = from.month)
           /\ (/\ CalledRule.frequency = "monthly"
               /\ CalledRule.interval = 1
               /\ occurrence.after = <<ToOrdinal(2024, 1, 31), 0>>
               => occurrence.next = Some(<<ToOrdinal(2024, 2, 29), 0>>))

\* a monthly rule asked for the month after 2024-01-31 answered 2024-02-29
C16_Witness ==
    /\ occurrence.op = "get_next_occurrence"
    /\ CalledRule.frequency = "monthly"
    /\ CalledRule.interval = 1
    /\ occurrence.after = <<31, 0>>
    /\ occurrence.next = Some(<<60, 0>>)

\* the Monday of the week of day n
WeekStart(n) == n - Weekday(n)

\* C17: get_next_occurrence for a weekly rule with a non-empty days_of_week
\* returns the earliest date strictly after `after` whose weekday (0 =
\* Monday) is listed; when the week of `after` has no listed weekday left it
\* returns the first listed weekday of the week `interval` weeks on.  The
\* result is never equal to or earlier than `after`.
C17_WeeklyWithDays ==
    (/\ occurrence.op = "get_next_occurrence"
     /\ CalledRule.frequency = "weekly"
     /\ CalledRule.days_of_week # None
     /\ occurrence.next # None)
    => LET listed == Range(CalledRule.days_of_week[1])
           after  == occurrence.after[1]
           next   == occurrence.next[1][1]
       IN  /\ next > after
           /\ Weekday(next) \in listed
           /\ occurrence.next[1][2] = occurrence.after[2]
           /\ IF \E d \in listed : d > Weekday(after)
              THEN \A day \in (after + 1)..(next - 1) : Weekday(day) \notin listed
              ELSE /\ WeekStart(next) = WeekStart(after) + 7 * CalledRule.interval
                   /\ \A d \in listed : Weekday(next) <= d
           /\ (/\ CalledRule.days_of_week = Some(<<0, 2, 4>>)
               /\ occurrence.after = <<ToOrdinal(2024, 1, 15), 0>>
               => occurrence.next = Some(<<ToOrdinal(2024, 1, 17), 0>>))

\* a rule for Mondays, Wednesdays and Fridays asked on Monday 2024-01-15
\* answered Wednesday 2024-01-17
C17_Witness ==
    /\ occurrence.op = "get_next_occurrence"
    /\ CalledRule.frequency = "weekly"
    /\ CalledRule.days_of_week = Some(<<0, 2, 4>>)
    /\ occurrence.after = <<15, 0>>
    /\ occurrence.next = Some(<<17, 0>>)

\* the date a daily rule, or a weekly rule without weekdays, computes
StepDate(rule, after) ==
    <<after[1] + (IF rule.frequency = "daily" THEN rule.interval
                  ELSE 7 * rule.interval),
      after[2]>>

\* C18: get_next_occurrence(rule, after) returns null whenever the rule has
\* an end date and the computed next date is later than it, and a date
\* otherwise: without an end date it never returns null, a date it returns
\* is never later than the end date, and for a daily rule (after + interval
\* days) and a weekly rule without weekdays (after + 7 * interval days) it
\* returns exactly the computed date or, past the end date, null.
C18_EndDate ==
    occurrence.op = "get_next_occurrence"
    => /\ CalledRule.end_date = None => occurrence.next # None
       /\ (CalledRule.end_date # None /\ occurrence.next # None)
          => ~Later(occurrence.next[1], CalledRule.end_date[1])
       /\ (\/ CalledRule.frequency = "daily"
           \/ CalledRule.frequency = "weekly" /\ CalledRule.days_of_week = None)
          => LET computed == StepDate(CalledRule, occurrence.after)
             IN  IF /\ CalledRule.end_date # None
                    /\ Later(computed, CalledRule.end_date[1])
                 THEN occurrence.next = None
                 ELSE occurrence.next = Some(computed)

\* a daily rule ending 2024-01-20 asked after 2024-01-21 answered null
C18_Witness ==
    /\ occurrence.op = "get_next_occurrence"
    /\ CalledRule.frequency = "daily"
    /\ CalledRule.end_date = Some(<<20, 0>>)
    /\ occurrence.after = <<21, 30>>
    /\ occurrence.next = None

\* a daily rule ending 2024-01-20 asked after 2024-01-15 answered a date
C18_WitnessBefore ==
    /\ occurrence.op = "get_next_occurrence"
    /\ CalledRule.frequency = "daily"
    /\ CalledRule.interval = 3
    /\ CalledRule.end_date = Some(<<20, 0>>)
    /\ occurrence.after = <<15, 0>>
    /\ occurrence.next = Some(<<18, 0>>)

\* the date the i-th generated instance follows: start for the first
GeneratedAfter(i) ==
    IF i = 1 THEN occurrence.after ELSE occurrence.instances[i - 1].due_date[1]

\* C19: generate_instances(template, start, end) returns one instance per
\* occurrence obtained by applying get_next_occurrence again and again from
\* start: each due date is the next occurrence after the one before, the
\* dates increase, all are after start and none is after end, the list
\* stops only where the next occurrence is null or after end, and every
\* instance has the template's id as recurrence_parent_id.  A daily rule
\* from 2024-01-01 to 2024-01-07 gives 6 instances.
C19_GenerateInstances ==
    occurrence.op = "generate_instances"
    => LET instances == occurrence.instances
           count     == Len(instances)
           beyond    == GetNextOccurrence(CalledRule, GeneratedAfter(count + 1))
       IN  /\ \A i \in 1..count :
                /\ instances[i].due_date
                     = GetNextOccurrence(CalledRule, GeneratedAfter(i))
                /\ instances[i].due_date # None
                /\ Later(instances[i].due_date[1], GeneratedAfter(i))
                /\ Later(instances[i].due_date[1], occurrence.after)
                /\ ~Later(instances[i].due_date[1], occurrence.until)
                /\ instances[i].recurrence_parent_id = mem.id
           /\ beyond = None \/ Later(beyond[1], occurrence.until)
           /\ (/\ CalledRule.frequency = "daily"
               /\ CalledRule.interval = 1
               /\ CalledRule.end_date = None
               /\ occurrence.after = <<ToOrdinal(2024, 1, 1), 0>>
               /\ occurrence.until = <<ToOrdinal(2024, 1, 7), 0>>
               => count = 6)

\* a daily template generated from 2024-01-01 to 2024-01-07 gave 6 instances
C19_Witness ==
    /\ occurrence.op = "generate_instances"
    /\ CalledRule.frequency = "daily"
    /\ CalledRule.interval = 1
    /\ CalledRule.end_date = None
    /\ occurrence.after = <<1, 0>>
    /\ occurrence.until = <<7, 0>>
    /\ Len(occurrence.instances) = 6
    /\ occurrence.instances[6].due_date = Some(<<7, 0>>)

\* the date create_next_instance counts from: the template's due date, or
\* the time of the call for a template without one
ReferenceDate == IF mem.due_date # None THEN mem.due_date[1] ELSE occurrence.after

\* C20: create_next_instance(template) returns a new task with a fresh id
\* whose title, description, priority, tags and project are the template's,
\* whose recurrence_parent_id is the template's id and whose due date is
\* get_next_occurrence(rule, reference date); it returns null when
\* get_next_occurrence returns null.
C20_CreateNextInstance ==
    occurrence.op = "create_next_instance"
    => LET next == GetNextOccurrence(CalledRule, ReferenceDate) IN
       IF next = None THEN occurrence.instances = <<>>
       ELSE /\ Len(occurrence.instances) = 1
            /\ LET instance == occurrence.instances[1] IN
               /\ instance.id # mem.id
               /\ instance.title = mem.title
               /\ instance.description = mem.description
               /\ instance.priority = mem.priority
               /\ instance.tags = mem.tags
               /\ instance.project = mem.project
               /\ instance.recurrence_parent_id = mem.id
               /\ instance.due_date = next

\* a weekly template without due date gave an instance due a week after
\* the call
C20_Witness ==
    /\ occurrence.op = "create_next_instance"
    /\ CalledRule.frequency = "weekly"
    /\ CalledRule.interval = 1
    /\ CalledRule.days_of_week = None
    /\ mem.due_date = None
    /\ occurrence.after = <<15, 0>>
    /\ Len(occurrence.instances) = 1
    /\ occurrence.instances[1].due_date = Some(<<22, 0>>)
    /\ occurrence.instances[1].project = Some("p")

\* a template due 2024-01-31 whose rule ended 2024-01-20 gave no instance
C20_WitnessNull ==
    /\ occurrence.op = "create_next_instance"
    /\ mem.due_date = Some(<<31, 0>>)
    /\ CalledRule.end_date = Some(<<20, 0>>)
    /\ occurrence.instances = <<>>

------------------------------------------------------------------------------
(* Claims about import runs *)

\* the stored file of the task with this id, when exactly one file holds it
StoredFile(fs, id) ==
    fs[CHOOSE path \in DOMAIN fs : fs[path].meta["id"] = id]

\* every file of fs is in fs2 with the same metadata and content
KeepsFiles(fs, fs2) ==
    \A path \in DOMAIN fs : path \in DOMAIN fs2 /\ fs2[path] = fs[path]

\* the step is an import that was no dry run
Imports == last'.op = "import" /\ ~summary'.dry_run

C22_DryRun ==
    [][(last'.op = "import" /\ summary'.dry_run) =>
        /\ files' = files
        /\ issued' = issued
        /\ last'.ret = {}
        /\ \A i \in 1..Len(summary'.log) :
             LET e == summary'.log[i] IN
             /\ e.ids = {}
             /\ (e.duplicate /\ last'.val = "skip") => e.kind = "skipped"
             /\ (e.duplicate /\ last'.val = "update") => e.kind = "updated"
             /\ (e.duplicate /\ last'.val = "force") => e.kind = "imported"
             /\ (~e.duplicate /\ FromObsidianLine(e.text) # None)
                => e.kind = "imported"
    ]_vars

\* a dry run of --update on a note with a checked line and a stored open
\* task it duplicates reported one update and left the task open
C22_Witness ==
    /\ last.op = "import"
    /\ last.val = "update"
    /\ summary.dry_run
    /\ summary.updated = 1
    /\ summary.log[1].text = NoteDone
    /\ \A id \in StoredIds(files) : StoredStatus(files, id) = {"pending"}

\* a dry run of a note with a new task reported one import and stored none
C22_WitnessNew ==
    /\ last.op = "import"
    /\ summary.dry_run
    /\ summary.imported = 1
    /\ files = EmptyFiles

\* the entries of the log with a prompt answered "a" or "A" before entry i
AllAnswered(log, i) ==
    {j \in 1..(i - 1) : log[j].choice \in {"a", "A"}}

\* C29: in an interactive import, once the user answers "a" (all skip) or
\* "A" (all update) for one duplicate, every later duplicate in the same
\* file and in the following files of the run is skipped, or updated,
\* without prompt; the answers "s", "u" and "f" hold for the current
\* duplicate only and the next duplicate prompts again.  A line without
\* duplicate never prompts.
C29_AllAnswers ==
    (last.op = "import" /\ last.val = "interactive")
    => LET log == summary.log IN
       \A i \in 1..Len(log) :
          LET e == log[i] IN
          IF ~e.duplicate THEN e.choice = ""
          ELSE IF AllAnswered(log, i) # {}
          THEN /\ e.choice = ""
               /\ \A j \in AllAnswered(log, i) :
                    e.kind = IF log[j].choice = "a" THEN "skipped" ELSE "updated"
          ELSE /\ e.choice \in {"s", "u", "f", "a", "A"}
               /\ e.kind = CASE e.choice \in {"s", "a"} -> "skipped"
                             [] e.choice \in {"u", "A"} -> "updated"
                             [] OTHER                   -> "imported"

\* "a" answered for the first duplicate of the first file: the duplicates
\* after it, in that file and in the second, were skipped without prompt
C29_Witness ==
    /\ last.op = "import"
    /\ last.val = "interactive"
    /\ Len(summary.log) = 3
    /\ summary.log[1].choice = "a"
    /\ summary.log[2].duplicate /\ summary.log[2].choice = ""
    /\ summary.log[3].file = 2
    /\ summary.log[3].duplicate /\ summary.log[3].choice = ""
    /\ summary.skipped = 3

\* "s" answered for the first duplicate, and the second prompted again
C29_WitnessAgain ==
    /\ last.op = "import"
    /\ last.val = "interactive"
    /\ Len(summary.log) = 3
    /\ summary.log[1].choice = "s"
    /\ summary.log[2].choice = "a"
    /\ summary.log[3].choice = ""

\* the lines of file number k of the last import
LinesOfFile(k) == Split(Split(last.arg, "eof")[k], "nl")

\* the task lines of the files of the last import: file number, line number
\* and the line
TaskLines ==
    UNION { { [file |-> k, line |-> i, text |-> Strip(LinesOfFile(k)[i])] :
                 i \in {j \in 1..Len(LinesOfFile(k)) :
                          StartsWith(Strip(LinesOfFile(k)[j]), <<"-", "sp", "[">>)} } :
            k \in 1..Len(Split(last.arg, "eof")) }

\* the entries of the log for a task line
EntriesFor(t) ==
    {i \in 1..Len(summary.log) :
        /\ summary.log[i].file = t.file
        /\ summary.log[i].line = t.line
        /\ summary.log[i].text = t.text}

\* C30: from_obsidian_line fails with a parse error only for a line that
\* does not begin with the checkbox marker; during import a line that
\* fails to parse is recorded in the error list with its line number and
\* does not stop the import: every other task line of the files, before and
\* after it, is still processed.
C30_ParseErrors ==
    last.op = "import"
    => /\ \A t \in TaskLines :
            /\ Cardinality(EntriesFor(t)) = 1
            /\ \A i \in EntriesFor(t) :
                 IF HasCheckbox(t.text)
                 THEN summary.log[i].kind \in {"imported", "updated", "skipped"}
                 ELSE summary.log[i].kind = "errors"
       /\ Len(summary.log) = Cardinality(TaskLines)
       /\ \A i, j \in 1..Len(summary.log) :
            i < j => \/ summary.log[i].file < summary.log[j].file
                     \/ /\ summary.log[i].file = summary.log[j].file
                        /\ summary.log[i].line < summary.log[j].line
       /\ summary.errors = LineNumbers(OfKind(summary.log, "errors"))
       /\ Len(summary.errors) = Cardinality({t \in TaskLines : ~HasCheckbox(t.text)})

\* a note whose second task line does not parse: line 2 is in the error
\* list and the lines before and after it were imported
C30_Witness ==
    /\ last.op = "import"
    /\ last.arg = NoteBroken
    /\ ~summary.dry_run
    /\ summary.errors = <<2>>
    /\ summary.imported = 2
    /\ summary.log[1].line = 1 /\ summary.log[1].kind = "imported"
    /\ summary.log[3].line = 3 /\ summary.log[3].kind = "imported"
    /\ Cardinality(StoredIds(files)) = 2

------------------------------------------------------------------------------
(* Claims about references, missing tasks and damaged files *)

\* --parent as typed for the add that `call` records; empty when not given
ParentTyped(call) == Split(call.arg, "|")[1]

\* --depends as typed, one entry per dependency
DependsTyped(call) ==
    LET typed == Split(call.arg, "|")[2]
    IN  IF typed = <<>> THEN <<>> ELSE Split(typed, ",")

\* the stored ids that begin with what was typed
Named(fs, typed) == {id \in StoredIds(fs) : StartsWith(id, typed)}

\* C23: adding a task whose parent id or any dependency id does not resolve
\* to a stored task fails with "Parent task not found" or "Dependency task
\* not found" and stores no new task; when they resolve, the stored
\* parent_id and dependencies are the full ids of the tasks named, also
\* when short ids were typed.
C23_AddReferences ==
    [][last'.op = "add" =>
        LET parent   == ParentTyped(last')
            depends  == DependsTyped(last')
        IN  IF parent # <<>> /\ Named(files, parent) = {}
            THEN last'.exc = "Parent task not found" /\ files' = files
            ELSE IF \E i \in DOMAIN depends : Named(files, depends[i]) = {}
            THEN last'.exc = "Dependency task not found" /\ files' = files
            ELSE /\ last'.exc = "none"
                 /\ Cardinality(last'.ret) = 1
                 /\ last'.ret = StoredIds(files') \ StoredIds(files)
                 /\ KeepsFiles(files, files')
                 /\ \A id \in last'.ret :
                      LET meta == StoredFile(files', id).meta
                          deps == MetaGetOr(meta, "dependencies", <<>>)
                      IN  /\ IF parent = <<>> THEN "parent_id" \notin DOMAIN meta
                             ELSE meta["parent_id"] \in Named(files, parent)
                          /\ Len(deps) = Len(depends)
                          /\ \A i \in DOMAIN depends :
                               deps[i] \in Named(files, depends[i])
    ]_vars

\* a task added with the short ids of its parent and of a dependency stores
\* their full ids
C23_Witness ==
    /\ last.op = "add"
    /\ last.exc = "none"
    /\ ParentTyped(last) = ShortId(IdA)
    /\ DependsTyped(last) = <<ShortId(IdB)>>
    /\ \E id \in last.ret :
         /\ StoredFile(files, id).meta["parent_id"] = IdA
         /\ StoredFile(files, id).meta["dependencies"] = <<IdB>>

\* an add naming a dependency no task has raised and stored nothing
C23_WitnessInvalid ==
    /\ last.op = "add"
    /\ last.exc = "Dependency task not found"
    /\ DependsTyped(last) = <<ShortId(IdB), <<"zzzz">>>>
    /\ StoredIds(files) = {IdA, IdB}

\* C24: when an identifier resolves to no stored task, get returns null
\* without raising, while update and delete raise a not-found error and
\* leave the store unchanged; in particular the update of a task that is
\* not stored creates no file for it.
C24_NotFound ==
    [][(last'.op \in {"get", "update", "delete"} /\ Named(files, last'.arg) = {})
        => /\ files' = files
           /\ IF last'.op = "get"
              THEN last'.ret = {} /\ last'.exc = "none"
              ELSE last'.exc = "Task not found"
    ]_vars

\* the ids of the stored files that have every required key
WellFormedIds(fs) ==
    {fs[path].meta["id"] : path \in {q \in DOMAIN fs : Decodes(fs[q])}}

\* C25: when the store holds a file whose record lacks a required field (id
\* or title), the decoding of that file alone fails: list_all still returns
\* all the other, well-formed tasks instead of aborting.
C25_ListSkipsDamaged ==
    last.op = "list_all"
    => last.exc = "none" /\ last.ret = WellFormedIds(files)


-----------------------------------------------------------------------------
(* Claims about the notes section *)

\* the lines of the notes section of the file on disk
NotesSection == Split(Split(disk[1].content, NotesMarker)[2], "nl")

\* a line of the form "- [YYYY-MM-DD HH:MM] content"
WellFormedNote(line) ==
    /\ Len(line) >= 6
    /\ SubSeq(line, 1, 3) = <<"-", "sp", "[">>
    /\ line[4] \in TimestampTokens
    /\ SubSeq(line, 5, 6) = <<"]", "sp">>

-----------------------------------------------------------------------------
(* Claims about the stamps of a stored task *)

NotEarlier(a, b) == a[1] > b[1] \/ (a[1] = b[1] /\ a[2] >= b[2])

\* what repo.get returns for the task after the last call
Stored == GetOutcomes(files, IdA, Clock(issued))

MutationOps == {"update", "start", "complete", "cancel", "add_note"}

\* C27: after a persisted mutation (update, start, complete, cancel,
\* add_note) the stored task has the id and the created_at of the task that
\* was loaded and an updated_at that is not earlier than the loaded one;
\* after create the stored created_at and updated_at are the time of the call.
C27_Stamps ==
    /\ last.op \in MutationOps
       => \A got \in Stored :
             /\ got # None
             /\ got[1].id = mem[1].id
             /\ got[1].created_at = mem[1].created_at
             /\ NotEarlier(got[1].updated_at, mem[1].updated_at)
    /\ last.op = "create"
       => \A got \in Stored :
             /\ got # None
             /\ got[1].created_at = Clock(issued)
             /\ got[1].updated_at = Clock(issued)

\* a note was added a tick after the task was loaded, which had itself been
\* changed after its creation
C27_Witness ==
    /\ last.op = "add_note"
    /\ \E got \in Stored :
          /\ got # None
          /\ Later(got[1].updated_at, mem[1].updated_at)
          /\ Later(mem[1].updated_at, mem[1].created_at)
          /\ Len(got[1].notes) = Len(mem[1].notes) + 1

-----------------------------------------------------------------------------
(* Claims about the files save touches *)

\* the files of fs that hold a task other than task_id
FilesOfOthers(fs, task_id) ==
    {path \in DOMAIN fs : fs[path].meta["id"] # task_id}

\* C28: save(b), as create and update call it, leaves the file of every
\* stored task a with another id in place and unchanged, also when the two
\* ids share their first 8 characters, and load(a.id) still returns a.
C28_SaveOwnFileOnly ==
    [][ last'.op \in {"create", "update"}
        => \A path \in FilesOfOthers(files, last'.arg) :
              /\ Exists(files', path)
              /\ files'[path] = files[path]
              /\ \A now \in NowTimes :
                    LoadOutcomes(files', files[path].meta["id"], now)
                        = {Some(LoadFromPath(files[path], now))}
    ]_vars

=============================================================================
